---- MODULE Spec2Model ----
(***************************************************************************)
(* A model of the qrcode2 encoder: the Version / EcLevel / Mode types of   *)
(* src/types.rs, the checked casts of src/cast.rs and the QrCode facade of *)
(* src/lib.rs, together with the bit assembler, the segment optimizer, the *)
(* Reed-Solomon stage and the canvas they call.                            *)
(***************************************************************************)
EXTENDS Integers, Sequences, FiniteSets, TLC

VARIABLES
    build,      \* "debug" or "release": whether cfg(debug_assertions) holds
    op,         \* the operation applied last
    arg,        \* its arguments
    ret,        \* what it returned
    code,       \* the QrCode the caller holds, NoCode if none
    stages      \* the canvas after each step of the last with_bits

vars == <<build, op, arg, ret, code, stages>>

(***************************************************************************)
(* Bounds of the model.                                                    *)
(***************************************************************************)
\* Version numbers are drawn from MinVersionArg..MaxVersionArg, which
\* includes out-of-range ones on both sides of 1..40.
MinVersionArg == 0 - 1
MaxVersionArg == 42

(***************************************************************************)
(* Small helpers.                                                          *)
(***************************************************************************)
Min(a, b) == IF a <= b THEN a ELSE b
Max(a, b) == IF a >= b THEN a ELSE b

\* A sequence given as a function, evaluated once into a tuple.
Force(s) == SubSeq(s, 1, Len(s))

\* A value bound to a name: In(value).
Bind(value, In(_)) == In(value)

\* The `?` of the code: the error (or the panic) of a result ends the
\* function with it, and the value of an Ok goes on.
AndThen(result, Then(_)) == IF ~result.ok THEN result ELSE Then(result.val)

\* Two's-complement wrap of an integer to i16.
WrapI16(x) == ((x + 32768) % 65536) - 32768

(***************************************************************************)
(* src/types.rs: QrError, EcLevel, Version.                                *)
(***************************************************************************)
QrError == {"DataTooLong", "InvalidVersion", "UnsupportedCharacterSet",
            "InvalidEciDesignator", "InvalidCharacter"}

Ok(v) == [ok |-> TRUE, val |-> v]
Err(e) == [ok |-> FALSE, err |-> e]
\* A panic (unwrap on a failed conversion, index out of bounds).
Panic == [ok |-> FALSE, err |-> "panic"]

\* EcLevel as its discriminant: L = 0, M = 1, Q = 2, H = 3.
L == 0
M == 1
Q == 2
H == 3
EcLevel == {L, M, Q, H}

Normal(v) == [kind |-> "Normal", a |-> v, b |-> 0]
Micro(v) == [kind |-> "Micro", a |-> v, b |-> 0]
RectMicro(h, w) == [kind |-> "RectMicro", a |-> h, b |-> w]

RMQR_ALL_WIDTH == <<27, 43, 59, 77, 99, 139>>
RMQR_ALL_HEIGHT == <<7, 9, 11, 13, 15, 17>>

\* width with the sides of an rMQR symbol exchanged.
width_Transposed(v) ==
    CASE v.kind = "Normal" -> WrapI16(v.a * 4 + 17)
      [] v.kind = "Micro" -> WrapI16(v.a * 2 + 9)
      [] v.kind = "RectMicro" -> v.a

\* Version::width
width(v) ==
    CASE v.kind = "Normal" -> WrapI16(v.a * 4 + 17)
      [] v.kind = "Micro" -> WrapI16(v.a * 2 + 9)
      [] v.kind = "RectMicro" -> v.b

\* Version::height
height(v) == IF v.kind = "RectMicro" THEN v.a ELSE width(v)

\* Version::rect_micro_index: the 32 arms of the match, in order.
RectMicroSizes ==
    << <<7, 43>>, <<7, 59>>, <<7, 77>>, <<7, 99>>, <<7, 139>>,
       <<9, 43>>, <<9, 59>>, <<9, 77>>, <<9, 99>>, <<9, 139>>,
       <<11, 27>>, <<11, 43>>, <<11, 59>>, <<11, 77>>, <<11, 99>>, <<11, 139>>,
       <<13, 27>>, <<13, 43>>, <<13, 59>>, <<13, 77>>, <<13, 99>>, <<13, 139>>,
       <<15, 43>>, <<15, 59>>, <<15, 77>>, <<15, 99>>, <<15, 139>>,
       <<17, 43>>, <<17, 59>>, <<17, 77>>, <<17, 99>>, <<17, 139>> >>

\* rect_micro_index counting from one.
rect_micro_index_OneBased(v) ==
    IF v.kind = "RectMicro" /\ \E i \in 1..32 : RectMicroSizes[i] = <<v.a, v.b>>
    THEN Ok(CHOOSE i \in 1..32 : RectMicroSizes[i] = <<v.a, v.b>>)
    ELSE Err("InvalidVersion")

rect_micro_index(v) ==
    IF v.kind = "RectMicro" /\ \E i \in 1..32 : RectMicroSizes[i] = <<v.a, v.b>>
    THEN Ok((CHOOSE i \in 1..32 : RectMicroSizes[i] = <<v.a, v.b>>) - 1)
    ELSE Err("InvalidVersion")

\* is_normal that takes version 0 for a version.
is_normal_FromZero(v) == v.kind = "Normal" /\ v.a >= 0 /\ v.a <= 40

is_normal(v) == v.kind = "Normal" /\ v.a >= 1 /\ v.a <= 40
is_micro(v) == v.kind = "Micro" /\ v.a >= 1 /\ v.a <= 4
is_rect_micro(v) == rect_micro_index(v).ok

(***************************************************************************)
(* src/cast.rs: As::as_usize on i16.  With debug_assertions the conversion *)
(* is usize::try_from(..).unwrap(), which panics on a negative value;      *)
(* without, it is `self as usize`, which sign-extends and wraps.  A usize  *)
(* that wrapped is kept as the negative integer x it is congruent to       *)
(* modulo 2^64 (its value is 2^64 + x).                                    *)
(***************************************************************************)
as_usize(b, x) == IF x < 0 /\ b = "debug" THEN Panic ELSE Ok(x)

\* mode_bits_count with the version number of a Micro symbol for its width.
mode_bits_count_Number(b, v) ==
    CASE v.kind = "Normal" -> Ok(4)
      [] v.kind = "Micro" -> as_usize(b, v.a)
      [] v.kind = "RectMicro" -> Ok(3)

\* Version::mode_bits_count
mode_bits_count(b, v) ==
    CASE v.kind = "Normal" -> Ok(4)
      [] v.kind = "Micro" -> as_usize(b, v.a - 1)
      [] v.kind = "RectMicro" -> Ok(3)

\* fetch that reads row 40+v for Micro(v).
fetch_MicroRow(v, ec_level, table, default) ==
    IF v.kind = "Normal" /\ v.a >= 1 /\ v.a <= 40
    THEN IF v.a - 1 >= Len(table) THEN Panic
         ELSE Ok(table[(v.a - 1) + 1][ec_level + 1])
    ELSE IF v.kind = "Micro" /\ v.a >= 1 /\ v.a <= 4
    THEN IF v.a + 40 >= Len(table) THEN Panic
         ELSE LET obj == table[(v.a + 40) + 1][ec_level + 1]
              IN  IF obj # default THEN Ok(obj) ELSE Err("InvalidVersion")
    ELSE IF v.kind = "RectMicro"
    THEN LET index == rect_micro_index(v)
         IN  IF ~index.ok THEN Err("InvalidVersion")
             ELSE IF index.val + 44 >= Len(table) THEN Panic
             ELSE LET obj == table[(index.val + 44) + 1][ec_level + 1]
                  IN  IF obj # default THEN Ok(obj) ELSE Err("InvalidVersion")
    ELSE Err("InvalidVersion")

\* Version::fetch.  A table is a sequence of rows <<L, M, Q, H>> (76 in the
\* crate); `default` is T::default().  Row v-1 serves Normal(v), row 39+v
\* Micro(v) and row 44+rect_micro_index the rMQR sizes (0-based; sequences
\* here are 1-based).  Indexing a slice past its end panics.
fetch(v, ec_level, table, default) ==
    IF v.kind = "Normal" /\ v.a >= 1 /\ v.a <= 40
    THEN IF v.a - 1 >= Len(table) THEN Panic
         ELSE Ok(table[(v.a - 1) + 1][ec_level + 1])
    ELSE IF v.kind = "Micro" /\ v.a >= 1 /\ v.a <= 4
    THEN IF v.a + 39 >= Len(table) THEN Panic
         ELSE LET obj == table[(v.a + 39) + 1][ec_level + 1]
              IN  IF obj # default THEN Ok(obj) ELSE Err("InvalidVersion")
    ELSE IF v.kind = "RectMicro"
    THEN LET index == rect_micro_index(v)
         IN  IF ~index.ok THEN Err("InvalidVersion")
             ELSE IF index.val + 44 >= Len(table) THEN Panic
             ELSE LET obj == table[(index.val + 44) + 1][ec_level + 1]
                  IN  IF obj # default THEN Ok(obj) ELSE Err("InvalidVersion")
    ELSE Err("InvalidVersion")

(***************************************************************************)
(* src/types.rs: Mode.                                                     *)
(***************************************************************************)
Numeric == "Numeric"
Alphanumeric == "Alphanumeric"
Byte == "Byte"
Kanji == "Kanji"
Mode == {Numeric, Alphanumeric, Byte, Kanji}

\* The column of a mode in [Numeric, Alphanumeric, Byte, Kanji] tables.
ModeColumn(m) ==
    CASE m = Numeric -> 1 [] m = Alphanumeric -> 2 [] m = Byte -> 3 [] m = Kanji -> 4

RMQR_LENGTH_BITS_COUNT ==
    << <<4, 3, 3, 2>>, <<5, 5, 4, 3>>, <<6, 5, 5, 4>>, <<7, 6, 5, 5>>, <<7, 6, 6, 5>>,
       <<5, 5, 4, 3>>, <<6, 5, 5, 4>>, <<7, 6, 5, 5>>, <<7, 6, 6, 5>>, <<8, 7, 6, 6>>,
       <<4, 4, 3, 2>>, <<6, 5, 5, 4>>, <<7, 6, 5, 5>>, <<7, 6, 6, 5>>, <<8, 7, 6, 6>>,
       <<8, 7, 7, 6>>,
       <<5, 5, 4, 3>>, <<6, 6, 5, 5>>, <<7, 6, 6, 5>>, <<7, 7, 6, 6>>, <<8, 7, 7, 6>>,
       <<8, 8, 7, 7>>,
       <<7, 6, 6, 5>>, <<7, 7, 6, 5>>, <<8, 7, 7, 6>>, <<8, 7, 7, 6>>, <<9, 8, 7, 7>>,
       <<7, 6, 6, 5>>, <<8, 7, 6, 6>>, <<8, 7, 7, 6>>, <<8, 8, 7, 6>>, <<9, 8, 8, 7>> >>

\* length_bits_count with the first band of Normal versions ending at 10.
length_bits_count_Band10(b, m, v) ==
    IF v.kind = "Micro"
    THEN LET a == as_usize(b, v.a)
         IN  IF ~a.ok THEN Panic
             ELSE CASE m = Numeric -> Ok(2 + a.val)
                    [] m \in {Alphanumeric, Byte} -> Ok(1 + a.val)
                    [] m = Kanji -> Ok(a.val)
    ELSE IF v.kind = "Normal" /\ v.a >= 1 /\ v.a <= 10
    THEN Ok(CASE m = Numeric -> 10 [] m = Alphanumeric -> 9 [] OTHER -> 8)
    ELSE IF v.kind = "Normal" /\ v.a >= 11 /\ v.a <= 26
    THEN Ok(CASE m = Numeric -> 12 [] m = Alphanumeric -> 11 [] m = Byte -> 16
              [] m = Kanji -> 10)
    ELSE IF v.kind = "Normal"
    THEN Ok(CASE m = Numeric -> 14 [] m = Alphanumeric -> 13 [] m = Byte -> 16
              [] m = Kanji -> 12)
    ELSE LET i == rect_micro_index(v)
             index == IF i.ok THEN i.val ELSE 31
         IN  Ok(RMQR_LENGTH_BITS_COUNT[index + 1][ModeColumn(m)])

\* Mode::length_bits_count.  A usize that wrapped below zero (release build)
\* is kept as the negative integer it is congruent to modulo 2^64.
length_bits_count(b, m, v) ==
    IF v.kind = "Micro"
    THEN LET a == as_usize(b, v.a)
         IN  IF ~a.ok THEN Panic
             ELSE CASE m = Numeric -> Ok(2 + a.val)
                    [] m \in {Alphanumeric, Byte} -> Ok(1 + a.val)
                    [] m = Kanji -> Ok(a.val)
    ELSE IF v.kind = "Normal" /\ v.a >= 1 /\ v.a <= 9
    THEN Ok(CASE m = Numeric -> 10 [] m = Alphanumeric -> 9 [] OTHER -> 8)
    ELSE IF v.kind = "Normal" /\ v.a >= 10 /\ v.a <= 26
    THEN Ok(CASE m = Numeric -> 12 [] m = Alphanumeric -> 11 [] m = Byte -> 16
              [] m = Kanji -> 10)
    ELSE IF v.kind = "Normal"
    THEN Ok(CASE m = Numeric -> 14 [] m = Alphanumeric -> 13 [] m = Byte -> 16
              [] m = Kanji -> 12)
    ELSE LET i == rect_micro_index(v)
             index == IF i.ok THEN i.val ELSE 31
         IN  Ok(RMQR_LENGTH_BITS_COUNT[index + 1][ModeColumn(m)])

\* usize::div_ceil
div_ceil(a, b) == (a + b - 1) \div b

\* data_bits_count that rounds down.
data_bits_count_Floor(m, raw_data_len) ==
    CASE m = Numeric -> (raw_data_len * 10) \div 3
      [] m = Alphanumeric -> (raw_data_len * 11) \div 2
      [] m = Byte -> raw_data_len * 8
      [] m = Kanji -> raw_data_len * 13

\* Mode::data_bits_count
data_bits_count(m, raw_data_len) ==
    CASE m = Numeric -> div_ceil(raw_data_len * 10, 3)
      [] m = Alphanumeric -> div_ceil(raw_data_len * 11, 2)
      [] m = Byte -> raw_data_len * 8
      [] m = Kanji -> raw_data_len * 13

\* The order of the declaration (a derived PartialOrd): Numeric <
\* Alphanumeric < Byte < Kanji.
partial_cmp_Derived(a, b) ==
    IF a = b THEN "Equal"
    ELSE IF ModeColumn(a) < ModeColumn(b) THEN "Less"
    ELSE "Greater"

\* impl PartialOrd for Mode: "Less", "Equal", "Greater" or "None".
partial_cmp(a, b) ==
    IF a = b THEN "Equal"
    ELSE IF (a = Numeric /\ b = Alphanumeric) \/ b = Byte THEN "Less"
    ELSE IF (a = Alphanumeric /\ b = Numeric) \/ a = Byte THEN "Greater"
    ELSE "None"

\* max without the fallback to Byte.
max_NoFallback(a, b) ==
    LET c == partial_cmp(a, b)
    IN  IF c = "Greater" THEN a ELSE b

\* Mode::max
max(a, b) ==
    LET c == partial_cmp(a, b)
    IN  IF c = "Greater" THEN a ELSE IF c # "None" THEN b ELSE Byte

(***************************************************************************)
(* The bit assembler (bits): a buffer of bits, most significant first.     *)
(***************************************************************************)
\* Data capacity in bits, rows as in Version::fetch, columns [L, M, Q, H];
\* 0 marks a (version, level) combination that does not exist.
DATA_LENGTHS ==
    << <<152, 128, 104, 72>>, <<272, 224, 176, 128>>, <<440, 352, 272, 208>>,
       <<640, 512, 384, 288>>, <<864, 688, 496, 368>>, <<1088, 864, 608, 480>>,
       <<1248, 992, 704, 528>>, <<1552, 1232, 880, 688>>, <<1856, 1456, 1056, 800>>,
       <<2192, 1728, 1232, 976>>, <<2592, 2032, 1440, 1120>>, <<2960, 2320, 1648, 1264>>,
       <<3424, 2672, 1952, 1440>>, <<3688, 2920, 2088, 1576>>, <<4184, 3320, 2360, 1784>>,
       <<4712, 3624, 2600, 2024>>, <<5176, 4056, 2936, 2264>>, <<5768, 4504, 3176, 2504>>,
       <<6360, 5016, 3560, 2728>>, <<6888, 5352, 3880, 3080>>, <<7456, 5712, 4096, 3248>>,
       <<8048, 6256, 4544, 3536>>, <<8752, 6880, 4912, 3712>>, <<9392, 7312, 5312, 4112>>,
       <<10208, 8000, 5744, 4304>>, <<10960, 8496, 6032, 4768>>, <<11744, 9024, 6464, 5024>>,
       <<12248, 9544, 6968, 5288>>, <<13048, 10136, 7288, 5608>>, <<13880, 10984, 7880, 5960>>,
       <<14744, 11640, 8264, 6344>>, <<15640, 12328, 8920, 6760>>, <<16568, 13048, 9368, 7208>>,
       <<17528, 13800, 9848, 7688>>, <<18448, 14496, 10288, 7888>>, <<19472, 15312, 10832, 8432>>,
       <<20528, 15936, 11408, 8768>>, <<21616, 16816, 12016, 9136>>, <<22496, 17728, 12656, 9776>>,
       <<23648, 18672, 13328, 10208>>,
       \* Micro 1..4
       <<20, 0, 0, 0>>, <<40, 32, 0, 0>>, <<84, 68, 0, 0>>, <<128, 112, 80, 0>>,
       \* rMQR R7, R9
       <<0, 48, 0, 24>>, <<0, 96, 0, 56>>, <<0, 160, 0, 80>>, <<0, 224, 0, 112>>,
       <<0, 352, 0, 192>>,
       <<0, 96, 0, 56>>, <<0, 168, 0, 88>>, <<0, 248, 0, 136>>, <<0, 336, 0, 176>>,
       <<0, 504, 0, 264>>,
       \* R11
       <<0, 56, 0, 40>>, <<0, 152, 0, 88>>, <<0, 248, 0, 120>>, <<0, 344, 0, 184>>,
       <<0, 456, 0, 232>>, <<0, 672, 0, 336>>,
       \* R13
       <<0, 96, 0, 56>>, <<0, 216, 0, 104>>, <<0, 304, 0, 160>>, <<0, 424, 0, 232>>,
       <<0, 584, 0, 280>>, <<0, 848, 0, 432>>,
       \* R15
       <<0, 264, 0, 120>>, <<0, 384, 0, 208>>, <<0, 536, 0, 248>>, <<0, 704, 0, 384>>,
       <<0, 1016, 0, 552>>,
       \* R17
       <<0, 312, 0, 168>>, <<0, 448, 0, 224>>, <<0, 624, 0, 304>>, <<0, 800, 0, 448>>,
       <<0, 1216, 0, 608>>
    >>

\* Bits::new
Bits_new(v) == [data |-> <<>>, version |-> v]

\* Bits::len
Bits_len(bits) == Len(bits.data)

\* Bits::max_len
max_len(bits, ec_level) == fetch(bits.version, ec_level, DATA_LENGTHS, 0)

\* The n-bit big-endian representation of `number`.
NumBits(n, number) == Force([i \in 1..n |-> (number \div (2 ^ (n - i))) % 2])

\* Bits::push_number: appends the low n bits of `number`, high bit first.
push_number(bits, n, number) == [bits EXCEPT !.data = @ \o NumBits(n, number)]

\* The concatenation parts[lo] \o ... \o parts[hi].
RECURSIVE Flatten(_, _, _)
Flatten(parts, lo, hi) ==
    IF lo > hi THEN << >>
    ELSE IF lo = hi THEN parts[lo]
    ELSE LET mid == (lo + hi) \div 2
         IN  Flatten(parts, lo, mid) \o Flatten(parts, mid + 1, hi)

\* The mode indicator of `mode` in the symbol kind of `v`.
ModeIndicator(v, mode) ==
    CASE v.kind = "Normal" ->
            (CASE mode = Numeric -> 1 [] mode = Alphanumeric -> 2
               [] mode = Byte -> 4 [] mode = Kanji -> 8)
      [] v.kind = "Micro" ->
            (CASE mode = Numeric -> 0 [] mode = Alphanumeric -> 1
               [] mode = Byte -> 2 [] mode = Kanji -> 3)
      [] v.kind = "RectMicro" ->
            (CASE mode = Numeric -> 1 [] mode = Alphanumeric -> 2
               [] mode = Byte -> 3 [] mode = Kanji -> 4)

\* Whether `number` can be written in n bits (n is a usize: a negative n
\* stands for a wrapped, huge width).
FitsIn(n, number) == n >= 0 /\ n <= 16 /\ number < 2 ^ n

\* Bits::push_mode: the mode indicator in mode_bits_count() bits.  A mode
\* whose indicator does not exist in the version is UnsupportedCharacterSet.
push_mode(b, bits, mode) ==
    Bind(mode_bits_count(b, bits.version), LAMBDA n :
    Bind(ModeIndicator(bits.version, mode), LAMBDA number :
      IF ~n.ok THEN Panic
      ELSE IF ~FitsIn(n.val, number) THEN Err("UnsupportedCharacterSet")
      ELSE Ok(push_number(bits, n.val, number))))

\* Bits::push_character_count: the count in length_bits_count() bits.
push_character_count(b, bits, mode, count) ==
    Bind(length_bits_count(b, mode, bits.version), LAMBDA n :
      IF ~n.ok THEN Panic
      ELSE IF ~FitsIn(n.val, count) THEN Err("DataTooLong")
      ELSE Ok(push_number(bits, n.val, count)))

\* Bits::push_eci_designator: the ECI mode indicator 0111, then the
\* designator in 8 bits (prefix 0), 16 bits (prefix 10) or 24 bits (prefix
\* 110).  Micro and rMQR symbols have no ECI.
push_eci_designator(b, bits, eci_designator) ==
    IF bits.version.kind # "Normal" THEN Err("InvalidEciDesignator")
    ELSE IF eci_designator < 0 \/ eci_designator > 999999 THEN Err("InvalidEciDesignator")
    ELSE Bind(push_number(bits, 4, 7), LAMBDA h :
           IF eci_designator <= 127 THEN Ok(push_number(h, 8, eci_designator))
           ELSE IF eci_designator <= 16383
           THEN Ok(push_number(push_number(h, 2, 2), 14, eci_designator))
           ELSE Ok(push_number(push_number(h, 3, 6), 21, eci_designator)))

(***************************************************************************)
(* Character sets.                                                         *)
(***************************************************************************)
IsDigit(c) == c >= 48 /\ c <= 57

\* The value of a character of the 45-character alphabet, or -1.
AlphanumericValue(c) ==
    IF c >= 48 /\ c <= 57 THEN c - 48
    ELSE IF c >= 65 /\ c <= 90 THEN c - 55
    ELSE CASE c = 32 -> 36 [] c = 36 -> 37 [] c = 37 -> 38 [] c = 42 -> 39
           [] c = 43 -> 40 [] c = 45 -> 41 [] c = 46 -> 42 [] c = 47 -> 43
           [] c = 58 -> 44 [] OTHER -> -1

IsAlphanumeric(c) == AlphanumericValue(c) >= 0

\* Shift-JIS double bytes 0x8140..0x9FFC and 0xE040..0xEBBF.
IsKanjiPair(hi, lo) ==
    LET cp == hi * 256 + lo
    IN  (cp >= 33088 /\ cp <= 40956) \/ (cp >= 57408 /\ cp <= 60351)

\* The 13-bit value of a Shift-JIS double byte.
KanjiValue(hi, lo) ==
    LET cp == hi * 256 + lo
        d == IF cp < 57408 THEN cp - 33088 ELSE cp - 49472
    IN  (d \div 256) * 192 + (d % 256)

\* Bits::push_numeric_data: the mode and the count, then the digits in
\* groups of three (10 bits), with a last group of two (7) or one (4).
NumericGroup(data, g) ==
    LET n == Len(data)
        lo == 3 * (g - 1) + 1
        k == Min(3, n - lo + 1)
        val == CASE k = 3 -> (data[lo] - 48) * 100
                             + (data[lo + 1] - 48) * 10 + (data[lo + 2] - 48)
                 [] k = 2 -> (data[lo] - 48) * 10 + (data[lo + 1] - 48)
                 [] k = 1 -> data[lo] - 48
    IN  NumBits(3 * k + 1, val)

\* The header of a segment: the mode indicator, then the character count.
push_header(b, bits, mode, count) ==
    AndThen(push_mode(b, bits, mode),
            LAMBDA h : push_character_count(b, h, mode, count))

\* The groups of bits appended to the data of bits.
AppendGroups(bits, groups) ==
    Ok([bits EXCEPT !.data = @ \o Flatten(groups, 1, Len(groups))])

push_numeric_data(b, bits, data) ==
    AndThen(push_header(b, bits, Numeric, Len(data)), LAMBDA h :
      IF \E i \in 1..Len(data) : ~IsDigit(data[i]) THEN Err("InvalidCharacter")
      ELSE AppendGroups(h, [g \in 1..div_ceil(Len(data), 3) |-> NumericGroup(data, g)]))

\* Bits::push_alphanumeric_data: pairs in 11 bits, a last single in 6.
AlphanumericGroup(data, g) ==
    IF 2 * g <= Len(data)
    THEN NumBits(11, AlphanumericValue(data[2 * g - 1]) * 45
                     + AlphanumericValue(data[2 * g]))
    ELSE NumBits(6, AlphanumericValue(data[2 * g - 1]))

push_alphanumeric_data(b, bits, data) ==
    AndThen(push_header(b, bits, Alphanumeric, Len(data)), LAMBDA h :
      IF \E i \in 1..Len(data) : ~IsAlphanumeric(data[i]) THEN Err("InvalidCharacter")
      ELSE AppendGroups(h, [g \in 1..div_ceil(Len(data), 2) |->
                               AlphanumericGroup(data, g)]))

\* Bits::push_byte_data: eight bits a byte.
push_byte_data(b, bits, data) ==
    AndThen(push_header(b, bits, Byte, Len(data)), LAMBDA h :
      AppendGroups(h, [i \in 1..Len(data) |-> NumBits(8, data[i])]))

\* Bits::push_kanji_data: thirteen bits a double byte; the count is in
\* characters.
push_kanji_data(b, bits, data) ==
    AndThen(push_header(b, bits, Kanji, Len(data) \div 2), LAMBDA h :
      IF \/ Len(data) % 2 # 0
         \/ \E g \in 1..(Len(data) \div 2) : ~IsKanjiPair(data[2 * g - 1], data[2 * g])
      THEN Err("InvalidCharacter")
      ELSE AppendGroups(h, [g \in 1..(Len(data) \div 2) |->
                               NumBits(13, KanjiValue(data[2 * g - 1], data[2 * g]))]))

(***************************************************************************)
(* The segment optimizer (optimize): a dynamic program over the bytes with *)
(* one state per mode.  Costs are in sixths of a bit, so that a digit      *)
(* (10/3 bits) and an alphanumeric character (11/2 bits) have whole costs; *)
(* a segment's cost is rounded up to whole bits where the segment ends.    *)
(***************************************************************************)
INF == 1000000000

Modes == <<Numeric, Alphanumeric, Byte, Kanji>>

\* Costs that take a digit for as dear as a byte.
CharCost_Flat == <<48, 48, 48, 78>>

\* The cost of one more character in each mode (Kanji: of one double byte).
CharCost == <<20, 33, 48, 78>>

RoundUp6(x) == IF x >= INF THEN INF ELSE ((x + 5) \div 6) * 6

Segment(mode, begin, end) == [mode |-> mode, begin |-> begin, end |-> end]

\* A usize sum that wrapped below zero stands for 2^64 + x: larger than any
\* cost of data, and ordered as x is.  WRAPPED stands in for 2^64.
WRAPPED == 10000000

\* The cost of a segment's header: mode indicator and character count.
HeaderBits(b, v, mode) ==
    Bind(mode_bits_count(b, v), LAMBDA mb :
    Bind(length_bits_count(b, mode, v), LAMBDA lb :
      IF ~mb.ok \/ ~lb.ok THEN Panic
      ELSE Ok(IF mb.val + lb.val < 0 THEN 6 * (WRAPPED + mb.val + lb.val)
              ELSE 6 * (mb.val + lb.val))))

\* Whether the character ending at byte i (1-based) can be in mode k.
Admissible(data, i, k) ==
    CASE k = 1 -> IsDigit(data[i])
      [] k = 2 -> IsAlphanumeric(data[i])
      [] k = 3 -> TRUE
      [] k = 4 -> i >= 2 /\ IsKanjiPair(data[i - 1], data[i])

\* The index of the least element of a 4-tuple, the first such on ties.
ArgMin4(c) ==
    CHOOSE k \in 1..4 : /\ \A j \in 1..4 : c[k] <= c[j]
                        /\ \A j \in 1..(k - 1) : c[j] > c[k]

\* The state after i bytes: c[k] the least cost of a segmentation of the
\* first i bytes whose last segment has mode k, s[k] that segmentation;
\* best / bs the least cost over the modes, rounded up to whole bits, and
\* its segmentation; p* the same after i-1 bytes.
OptInit ==
    [c |-> <<INF, INF, INF, INF>>, s |-> << <<>>, <<>>, <<>>, <<>> >>,
     best |-> 0, bs |-> <<>>,
     pc |-> <<INF, INF, INF, INF>>, ps |-> << <<>>, <<>>, <<>>, <<>> >>,
     pbest |-> INF, pbs |-> <<>>]

\* Extends the last segment of a segmentation to end at `end`.
ExtendLast(segs, end) == [segs EXCEPT ![Len(segs)].end = end]

OptStep(st, data, hdr, i) ==
    LET \* the state the character ending at byte i starts from
        fromC(k) == IF k = 4 THEN st.pc[k] ELSE st.c[k]
        fromS(k) == IF k = 4 THEN st.ps[k] ELSE st.s[k]
        fromBest(k) == IF k = 4 THEN st.pbest ELSE st.best
        fromBs(k) == IF k = 4 THEN st.pbs ELSE st.bs
        begin(k) == IF k = 4 THEN i - 2 ELSE i - 1
        stay(k) == IF fromC(k) >= INF THEN INF ELSE fromC(k) + CharCost[k]
        switch(k) == IF fromBest(k) >= INF \/ hdr[k] >= INF THEN INF
                     ELSE fromBest(k) + hdr[k] + CharCost[k]
        cost(k) == IF ~Admissible(data, i, k) THEN INF
                   ELSE Min(stay(k), switch(k))
        segs(k) == IF cost(k) >= INF THEN <<>>
                   ELSE IF stay(k) <= switch(k) THEN ExtendLast(fromS(k), i)
                   ELSE Append(fromBs(k), Segment(Modes[k], begin(k), i))
    IN  Bind(Force([k \in 1..4 |-> cost(k)]), LAMBDA c :
        Bind(Force([k \in 1..4 |-> segs(k)]), LAMBDA s :
        Bind(Force([k \in 1..4 |-> RoundUp6(c[k])]), LAMBDA r :
        Bind(ArgMin4(r), LAMBDA k0 :
          [c |-> c, s |-> s, best |-> r[k0], bs |-> s[k0],
           pc |-> st.c, ps |-> st.s, pbest |-> st.best, pbs |-> st.bs]))))

\* The steps lo..hi applied in order to st.
RECURSIVE OptFold(_, _, _, _, _)
OptFold(st, data, hdr, lo, hi) ==
    IF lo > hi THEN st
    ELSE IF lo = hi THEN OptStep(st, data, hdr, lo)
    ELSE LET mid == (lo + hi) \div 2
             left == OptFold(st, data, hdr, lo, mid)
         IN  IF left.best = left.best
             THEN OptFold(left, data, hdr, mid + 1, hi)
             ELSE st

\* Parser::optimize: Ok([segments, total_len]) with the segments of least
\* total encoded length for the version, begin (0-based) inclusive and end
\* exclusive, and that length in bits.
Optimize(b, data, v) ==
    IF Len(data) = 0 THEN Ok([segments |-> <<>>, total_len |-> 0])
    ELSE Bind(Force([k \in 1..4 |-> HeaderBits(b, v, Modes[k])]), LAMBDA h :
           IF \E k \in 1..4 : ~h[k].ok THEN Panic
           ELSE Bind(OptFold(OptInit, data, Force([k \in 1..4 |-> h[k].val]), 1, Len(data)),
                     LAMBDA st : Ok([segments |-> st.bs, total_len |-> st.best \div 6])))

\* The bytes begin+1..end of data (the segment's bytes).
Slice(data, begin, end) == Force([i \in 1..(end - begin) |-> data[begin + i]])

\* Bits::push_segments: each segment in order; the first error ends it.
push_segment(b, bits, data, seg) ==
    LET part == Slice(data, seg.begin, seg.end)
    IN  CASE seg.mode = Numeric -> push_numeric_data(b, bits, part)
          [] seg.mode = Alphanumeric -> push_alphanumeric_data(b, bits, part)
          [] seg.mode = Byte -> push_byte_data(b, bits, part)
          [] seg.mode = Kanji -> push_kanji_data(b, bits, part)

RECURSIVE push_segments(_, _, _, _, _)
push_segments(b, bits, data, segs, i) ==
    IF i > Len(segs) THEN Ok(bits)
    ELSE AndThen(push_segment(b, bits, data, segs[i]),
                 LAMBDA pushed : push_segments(b, pushed, data, segs, i + 1))

\* Bits::push_optimal_data
push_optimal_data(b, bits, data) ==
    AndThen(Optimize(b, data, bits.version),
            LAMBDA o : push_segments(b, bits, data, o.segments, 1))

\* The width of the terminator: 4 bits for Normal, 3 + 2v for Micro(v), and
\* 3 bits for rMQR (the width the symbol of test_annex_i_rmqr is built with).
TerminatorSize(v) ==
    CASE v.kind = "Micro" -> 3 + 2 * v.a
      [] v.kind = "RectMicro" -> 3
      [] OTHER -> 4

\* The pad bytes in the other order.
PADDING_BYTES_Swapped == <<17, 236>>

PADDING_BYTES == <<236, 17>>

\* push_terminator that pads whatever the length of the bits.
push_terminator_Unchecked(b, bits, ec_level) ==
    AndThen(max_len(bits, ec_level), LAMBDA cap :
        Bind(Min(TerminatorSize(bits.version), cap - Bits_len(bits)), LAMBDA t :
        Bind(Min(div_ceil(Bits_len(bits) + t, 8) * 8, cap), LAMBDA aligned :
        Bind((cap - aligned) \div 8, LAMBDA whole :
        Bind(cap - aligned - 8 * whole, LAMBDA rest :
          Ok([bits EXCEPT !.data =
                @ \o [i \in 1..(aligned - Bits_len(bits)) |-> 0]
                  \o [i \in 1..(8 * whole) |->
                        NumBits(8, PADDING_BYTES[(((i - 1) \div 8) % 2) + 1])[((i - 1) % 8) + 1]]
                  \o [i \in 1..rest |-> NumBits(8, 17)[8 - rest + i]]]))))))

\* Bits::push_terminator: the terminator, capped by the room left; zero bits
\* to the byte boundary; pad bytes 0xEC, 0x11 in turn up to the capacity.
\* The capacity of Micro 1 and 3 ends with a 4-bit codeword, which takes
\* the low four bits of 0x11.
push_terminator(b, bits, ec_level) ==
    AndThen(max_len(bits, ec_level), LAMBDA cap :
      IF Bits_len(bits) > cap THEN Err("DataTooLong")
      ELSE
        Bind(Min(TerminatorSize(bits.version), cap - Bits_len(bits)), LAMBDA t :
        Bind(Min(div_ceil(Bits_len(bits) + t, 8) * 8, cap), LAMBDA aligned :
        Bind((cap - aligned) \div 8, LAMBDA whole :
        Bind(cap - aligned - 8 * whole, LAMBDA rest :
          Ok([bits EXCEPT !.data =
                @ \o [i \in 1..(aligned - Bits_len(bits)) |-> 0]
                  \o [i \in 1..(8 * whole) |->
                        NumBits(8, PADDING_BYTES[(((i - 1) \div 8) % 2) + 1])[((i - 1) % 8) + 1]]
                  \o [i \in 1..rest |-> NumBits(8, 17)[8 - rest + i]]]))))))

\* Bits::into_bytes: eight bits a byte, the last byte filled with zeros.
into_bytes(bits) ==
    LET n == Len(bits.data)
    IN  Force([k \in 1..div_ceil(n, 8) |->
            LET bit(j) == IF 8 * (k - 1) + j <= n THEN bits.data[8 * (k - 1) + j] ELSE 0
            IN  128 * bit(1) + 64 * bit(2) + 32 * bit(3) + 16 * bit(4)
                + 8 * bit(5) + 4 * bit(6) + 2 * bit(7) + bit(8)])

(***************************************************************************)
(* The Reed-Solomon stage (ec): GF(256) modulo x^8 + x^4 + x^3 + x^2 + 1,  *)
(* the blocks of a symbol and their interleaving.                          *)
(***************************************************************************)
\* Bitwise exclusive or of two naturals.
RECURSIVE Xor(_, _)
Xor(a, b) ==
    IF a = 0 THEN b
    ELSE IF b = 0 THEN a
    ELSE ((a + b) % 2) + 2 * Xor(a \div 2, b \div 2)

\* Multiplication by the primitive element 2, modulo 0x11D.
GfDouble(a) == IF 2 * a >= 256 THEN Xor(2 * a, 285) ELSE 2 * a

\* EXP_TABLE[i + 1] = 2^i for i in 0..254.
RECURSIVE ExpFold(_, _, _)
ExpFold(acc, lo, hi) ==
    IF lo > hi THEN acc
    ELSE IF lo = hi THEN Append(acc, GfDouble(acc[Len(acc)]))
    ELSE LET mid == (lo + hi) \div 2
             left == ExpFold(acc, lo, mid)
         IN  IF Len(left) > 0 THEN ExpFold(left, mid + 1, hi) ELSE acc

EXP_TABLE == ExpFold(<<1>>, 1, 254)

\* LOG_TABLE[a] = i with 2^i = a, for a in 1..255.
LOG_TABLE == Force([a \in 1..255 |-> (CHOOSE i \in 1..255 : EXP_TABLE[i] = a) - 1])

\* Multiplication in GF(256).
gf_mul(a, b) ==
    IF a = 0 \/ b = 0 THEN 0
    ELSE EXP_TABLE[((LOG_TABLE[a] + LOG_TABLE[b]) % 255) + 1]

\* The generator polynomial (x - 2^0)...(x - 2^(n-1)): its n+1 coefficients,
\* highest power first.
RECURSIVE GeneratorFold(_, _, _)
GeneratorFold(g, lo, hi) ==
    IF lo > hi THEN g
    ELSE IF lo = hi
    THEN LET root == EXP_TABLE[lo + 1]
             m == Len(g)
         IN  Force([j \in 1..(m + 1) |->
                      Xor(IF j <= m THEN g[j] ELSE 0,
                          IF j >= 2 THEN gf_mul(g[j - 1], root) ELSE 0)])
    ELSE LET mid == (lo + hi) \div 2
             left == GeneratorFold(g, lo, mid)
         IN  IF Len(left) > 0 THEN GeneratorFold(left, mid + 1, hi) ELSE g

Generator(n) == GeneratorFold(<<1>>, 0, n - 1)

\* The remainder of block(x) * x^n by the generator g, byte by byte.
RECURSIVE RemainderFold(_, _, _, _, _)
RemainderFold(rem, block, g, lo, hi) ==
    IF lo > hi THEN rem
    ELSE IF lo = hi
    THEN LET n == Len(rem)
             factor == Xor(block[lo], rem[1])
         IN  Force([j \in 1..n |->
                      Xor(IF j < n THEN rem[j + 1] ELSE 0, gf_mul(g[j + 1], factor))])
    ELSE LET mid == (lo + hi) \div 2
             left == RemainderFold(rem, block, g, lo, mid)
         IN  IF Len(left) >= 0 THEN RemainderFold(left, block, g, mid + 1, hi) ELSE rem

\* create_error_correction_code: the n parity bytes of a block.
create_error_correction_code(block, n) ==
    IF n = 0 THEN << >>
    ELSE RemainderFold(Force([j \in 1..n |-> 0]), block, Generator(n), 1, Len(block))

\* Error-correction codewords per block, rows as in Version::fetch, columns
\* [L, M, Q, H]; 0 marks a combination that does not exist.
EC_BYTES_PER_BLOCK ==
    <<
       <<7, 10, 13, 17>>, <<10, 16, 22, 28>>, <<15, 26, 18, 22>>, <<20, 18, 26, 16>>, <<26, 24, 18, 22>>,
       <<18, 16, 24, 28>>, <<20, 18, 18, 26>>, <<24, 22, 22, 26>>, <<30, 22, 20, 24>>, <<18, 26, 24, 28>>,
       <<20, 30, 28, 24>>, <<24, 22, 26, 28>>, <<26, 22, 24, 22>>, <<30, 24, 20, 24>>, <<22, 24, 30, 24>>,
       <<24, 28, 24, 30>>, <<28, 28, 28, 28>>, <<30, 26, 28, 28>>, <<28, 26, 26, 26>>, <<28, 26, 30, 28>>,
       <<28, 26, 28, 30>>, <<28, 28, 30, 24>>, <<30, 28, 30, 30>>, <<30, 28, 30, 30>>, <<26, 28, 30, 30>>,
       <<28, 28, 28, 30>>, <<30, 28, 30, 30>>, <<30, 28, 30, 30>>, <<30, 28, 30, 30>>, <<30, 28, 30, 30>>,
       <<30, 28, 30, 30>>, <<30, 28, 30, 30>>, <<30, 28, 30, 30>>, <<30, 28, 30, 30>>, <<30, 28, 30, 30>>,
       <<30, 28, 30, 30>>, <<30, 28, 30, 30>>, <<30, 28, 30, 30>>, <<30, 28, 30, 30>>, <<30, 28, 30, 30>>,
       \* Micro 1..4
       <<2, 0, 0, 0>>, <<5, 6, 0, 0>>, <<6, 8, 0, 0>>, <<8, 10, 14, 0>>,
       \* rMQR
       <<0, 7, 0, 10>>, <<0, 9, 0, 14>>, <<0, 12, 0, 22>>, <<0, 16, 0, 30>>, <<0, 24, 0, 22>>,
       <<0, 9, 0, 14>>, <<0, 12, 0, 22>>, <<0, 18, 0, 16>>, <<0, 24, 0, 22>>, <<0, 18, 0, 22>>,
       <<0, 8, 0, 10>>, <<0, 12, 0, 20>>, <<0, 16, 0, 16>>, <<0, 24, 0, 22>>, <<0, 16, 0, 30>>,
       <<0, 24, 0, 30>>, <<0, 9, 0, 14>>, <<0, 14, 0, 28>>, <<0, 22, 0, 20>>, <<0, 16, 0, 28>>,
       <<0, 20, 0, 26>>, <<0, 20, 0, 28>>, <<0, 18, 0, 18>>, <<0, 26, 0, 24>>, <<0, 18, 0, 24>>,
       <<0, 24, 0, 22>>, <<0, 24, 0, 26>>, <<0, 22, 0, 20>>, <<0, 16, 0, 30>>, <<0, 22, 0, 28>>,
       <<0, 30, 0, 26>>, <<0, 20, 0, 26>>
    >>

\* The blocks of data codewords: <<size of a group-1 block, number of group-1
\* blocks, size of a group-2 block, number of group-2 blocks>>.
DATA_BYTES_PER_BLOCK ==
    <<
       <<<<19, 1, 0, 0>>, <<16, 1, 0, 0>>, <<13, 1, 0, 0>>, <<9, 1, 0, 0>>>>,
       <<<<34, 1, 0, 0>>, <<28, 1, 0, 0>>, <<22, 1, 0, 0>>, <<16, 1, 0, 0>>>>,
       <<<<55, 1, 0, 0>>, <<44, 1, 0, 0>>, <<17, 2, 0, 0>>, <<13, 2, 0, 0>>>>,
       <<<<80, 1, 0, 0>>, <<32, 2, 0, 0>>, <<24, 2, 0, 0>>, <<9, 4, 0, 0>>>>,
       <<<<108, 1, 0, 0>>, <<43, 2, 0, 0>>, <<15, 2, 16, 2>>, <<11, 2, 12, 2>>>>,
       <<<<68, 2, 0, 0>>, <<27, 4, 0, 0>>, <<19, 4, 0, 0>>, <<15, 4, 0, 0>>>>,
       <<<<78, 2, 0, 0>>, <<31, 4, 0, 0>>, <<14, 2, 15, 4>>, <<13, 4, 14, 1>>>>,
       <<<<97, 2, 0, 0>>, <<38, 2, 39, 2>>, <<18, 4, 19, 2>>, <<14, 4, 15, 2>>>>,
       <<<<116, 2, 0, 0>>, <<36, 3, 37, 2>>, <<16, 4, 17, 4>>, <<12, 4, 13, 4>>>>,
       <<<<68, 2, 69, 2>>, <<43, 4, 44, 1>>, <<19, 6, 20, 2>>, <<15, 6, 16, 2>>>>,
       <<<<81, 4, 0, 0>>, <<50, 1, 51, 4>>, <<22, 4, 23, 4>>, <<12, 3, 13, 8>>>>,
       <<<<92, 2, 93, 2>>, <<36, 6, 37, 2>>, <<20, 4, 21, 6>>, <<14, 7, 15, 4>>>>,
       <<<<107, 4, 0, 0>>, <<37, 8, 38, 1>>, <<20, 8, 21, 4>>, <<11, 12, 12, 4>>>>,
       <<<<115, 3, 116, 1>>, <<40, 4, 41, 5>>, <<16, 11, 17, 5>>, <<12, 11, 13, 5>>>>,
       <<<<87, 5, 88, 1>>, <<41, 5, 42, 5>>, <<24, 5, 25, 7>>, <<12, 11, 13, 7>>>>,
       <<<<98, 5, 99, 1>>, <<45, 7, 46, 3>>, <<19, 15, 20, 2>>, <<15, 3, 16, 13>>>>,
       <<<<107, 1, 108, 5>>, <<46, 10, 47, 1>>, <<22, 1, 23, 15>>, <<14, 2, 15, 17>>>>,
       <<<<120, 5, 121, 1>>, <<43, 9, 44, 4>>, <<22, 17, 23, 1>>, <<14, 2, 15, 19>>>>,
       <<<<113, 3, 114, 4>>, <<44, 3, 45, 11>>, <<21, 17, 22, 4>>, <<13, 9, 14, 16>>>>,
       <<<<107, 3, 108, 5>>, <<41, 3, 42, 13>>, <<24, 15, 25, 5>>, <<15, 15, 16, 10>>>>,
       <<<<116, 4, 117, 4>>, <<42, 17, 0, 0>>, <<22, 17, 23, 6>>, <<16, 19, 17, 6>>>>,
       <<<<111, 2, 112, 7>>, <<46, 17, 0, 0>>, <<24, 7, 25, 16>>, <<13, 34, 0, 0>>>>,
       <<<<121, 4, 122, 5>>, <<47, 4, 48, 14>>, <<24, 11, 25, 14>>, <<15, 16, 16, 14>>>>,
       <<<<117, 6, 118, 4>>, <<45, 6, 46, 14>>, <<24, 11, 25, 16>>, <<16, 30, 17, 2>>>>,
       <<<<106, 8, 107, 4>>, <<47, 8, 48, 13>>, <<24, 7, 25, 22>>, <<15, 22, 16, 13>>>>,
       <<<<114, 10, 115, 2>>, <<46, 19, 47, 4>>, <<22, 28, 23, 6>>, <<16, 33, 17, 4>>>>,
       <<<<122, 8, 123, 4>>, <<45, 22, 46, 3>>, <<23, 8, 24, 26>>, <<15, 12, 16, 28>>>>,
       <<<<117, 3, 118, 10>>, <<45, 3, 46, 23>>, <<24, 4, 25, 31>>, <<15, 11, 16, 31>>>>,
       <<<<116, 7, 117, 7>>, <<45, 21, 46, 7>>, <<23, 1, 24, 37>>, <<15, 19, 16, 26>>>>,
       <<<<115, 5, 116, 10>>, <<47, 19, 48, 10>>, <<24, 15, 25, 25>>, <<15, 23, 16, 25>>>>,
       <<<<115, 13, 116, 3>>, <<46, 2, 47, 29>>, <<24, 42, 25, 1>>, <<15, 23, 16, 28>>>>,
       <<<<115, 17, 0, 0>>, <<46, 10, 47, 23>>, <<24, 10, 25, 35>>, <<15, 19, 16, 35>>>>,
       <<<<115, 17, 116, 1>>, <<46, 14, 47, 21>>, <<24, 29, 25, 19>>, <<15, 11, 16, 46>>>>,
       <<<<115, 13, 116, 6>>, <<46, 14, 47, 23>>, <<24, 44, 25, 7>>, <<16, 59, 17, 1>>>>,
       <<<<121, 12, 122, 7>>, <<47, 12, 48, 26>>, <<24, 39, 25, 14>>, <<15, 22, 16, 41>>>>,
       <<<<121, 6, 122, 14>>, <<47, 6, 48, 34>>, <<24, 46, 25, 10>>, <<15, 2, 16, 64>>>>,
       <<<<122, 17, 123, 4>>, <<46, 29, 47, 14>>, <<24, 49, 25, 10>>, <<15, 24, 16, 46>>>>,
       <<<<122, 4, 123, 18>>, <<46, 13, 47, 32>>, <<24, 48, 25, 14>>, <<15, 42, 16, 32>>>>,
       <<<<117, 20, 118, 4>>, <<47, 40, 48, 7>>, <<24, 43, 25, 22>>, <<15, 10, 16, 67>>>>,
       <<<<118, 19, 119, 6>>, <<47, 18, 48, 31>>, <<24, 34, 25, 34>>, <<15, 20, 16, 61>>>>,
       \* Micro 1..4
       <<<<3, 1, 0, 0>>, <<0, 0, 0, 0>>, <<0, 0, 0, 0>>, <<0, 0, 0, 0>>>>,
       <<<<5, 1, 0, 0>>, <<4, 1, 0, 0>>, <<0, 0, 0, 0>>, <<0, 0, 0, 0>>>>,
       <<<<11, 1, 0, 0>>, <<9, 1, 0, 0>>, <<0, 0, 0, 0>>, <<0, 0, 0, 0>>>>,
       <<<<16, 1, 0, 0>>, <<14, 1, 0, 0>>, <<10, 1, 0, 0>>, <<0, 0, 0, 0>>>>,
       \* rMQR
       <<<<0, 0, 0, 0>>, <<6, 1, 0, 0>>, <<0, 0, 0, 0>>, <<3, 1, 0, 0>>>>,
       <<<<0, 0, 0, 0>>, <<12, 1, 0, 0>>, <<0, 0, 0, 0>>, <<7, 1, 0, 0>>>>,
       <<<<0, 0, 0, 0>>, <<20, 1, 0, 0>>, <<0, 0, 0, 0>>, <<10, 1, 0, 0>>>>,
       <<<<0, 0, 0, 0>>, <<28, 1, 0, 0>>, <<0, 0, 0, 0>>, <<14, 1, 0, 0>>>>,
       <<<<0, 0, 0, 0>>, <<44, 1, 0, 0>>, <<0, 0, 0, 0>>, <<12, 2, 0, 0>>>>,
       <<<<0, 0, 0, 0>>, <<12, 1, 0, 0>>, <<0, 0, 0, 0>>, <<7, 1, 0, 0>>>>,
       <<<<0, 0, 0, 0>>, <<21, 1, 0, 0>>, <<0, 0, 0, 0>>, <<11, 1, 0, 0>>>>,
       <<<<0, 0, 0, 0>>, <<31, 1, 0, 0>>, <<0, 0, 0, 0>>, <<8, 1, 9, 1>>>>,
       <<<<0, 0, 0, 0>>, <<42, 1, 0, 0>>, <<0, 0, 0, 0>>, <<11, 2, 0, 0>>>>,
       <<<<0, 0, 0, 0>>, <<31, 1, 32, 1>>, <<0, 0, 0, 0>>, <<11, 3, 0, 0>>>>,
       <<<<0, 0, 0, 0>>, <<7, 1, 0, 0>>, <<0, 0, 0, 0>>, <<5, 1, 0, 0>>>>,
       <<<<0, 0, 0, 0>>, <<19, 1, 0, 0>>, <<0, 0, 0, 0>>, <<11, 1, 0, 0>>>>,
       <<<<0, 0, 0, 0>>, <<31, 1, 0, 0>>, <<0, 0, 0, 0>>, <<7, 1, 8, 1>>>>,
       <<<<0, 0, 0, 0>>, <<43, 1, 0, 0>>, <<0, 0, 0, 0>>, <<11, 1, 12, 1>>>>,
       <<<<0, 0, 0, 0>>, <<28, 1, 29, 1>>, <<0, 0, 0, 0>>, <<14, 1, 15, 1>>>>,
       <<<<0, 0, 0, 0>>, <<42, 2, 0, 0>>, <<0, 0, 0, 0>>, <<14, 3, 0, 0>>>>,
       <<<<0, 0, 0, 0>>, <<12, 1, 0, 0>>, <<0, 0, 0, 0>>, <<7, 1, 0, 0>>>>,
       <<<<0, 0, 0, 0>>, <<27, 1, 0, 0>>, <<0, 0, 0, 0>>, <<13, 1, 0, 0>>>>,
       <<<<0, 0, 0, 0>>, <<38, 1, 0, 0>>, <<0, 0, 0, 0>>, <<10, 2, 0, 0>>>>,
       <<<<0, 0, 0, 0>>, <<26, 1, 27, 1>>, <<0, 0, 0, 0>>, <<14, 1, 15, 1>>>>,
       <<<<0, 0, 0, 0>>, <<36, 1, 37, 1>>, <<0, 0, 0, 0>>, <<11, 1, 12, 2>>>>,
       <<<<0, 0, 0, 0>>, <<35, 2, 36, 1>>, <<0, 0, 0, 0>>, <<13, 2, 14, 2>>>>,
       <<<<0, 0, 0, 0>>, <<33, 1, 0, 0>>, <<0, 0, 0, 0>>, <<7, 1, 8, 1>>>>,
       <<<<0, 0, 0, 0>>, <<48, 1, 0, 0>>, <<0, 0, 0, 0>>, <<13, 2, 0, 0>>>>,
       <<<<0, 0, 0, 0>>, <<33, 1, 34, 1>>, <<0, 0, 0, 0>>, <<10, 2, 11, 1>>>>,
       <<<<0, 0, 0, 0>>, <<44, 2, 0, 0>>, <<0, 0, 0, 0>>, <<12, 4, 0, 0>>>>,
       <<<<0, 0, 0, 0>>, <<42, 2, 43, 1>>, <<0, 0, 0, 0>>, <<13, 1, 14, 4>>>>,
       <<<<0, 0, 0, 0>>, <<39, 1, 0, 0>>, <<0, 0, 0, 0>>, <<10, 1, 11, 1>>>>,
       <<<<0, 0, 0, 0>>, <<28, 2, 0, 0>>, <<0, 0, 0, 0>>, <<14, 2, 0, 0>>>>,
       <<<<0, 0, 0, 0>>, <<39, 2, 0, 0>>, <<0, 0, 0, 0>>, <<12, 1, 13, 2>>>>,
       <<<<0, 0, 0, 0>>, <<50, 2, 0, 0>>, <<0, 0, 0, 0>>, <<14, 4, 0, 0>>>>,
       <<<<0, 0, 0, 0>>, <<38, 4, 0, 0>>, <<0, 0, 0, 0>>, <<12, 2, 13, 4>>>>
    >>

\* The number of data bytes of block i (1-based) of a block structure.
BlockSize(blk, i) == IF i <= blk[2] THEN blk[1] ELSE blk[3]

\* The 0-based offset of block i in the data.
BlockBegin(blk, i) ==
    IF i <= blk[2] THEN blk[1] * (i - 1)
    ELSE blk[1] * blk[2] + blk[3] * (i - 1 - blk[2])

\* The blocks one after the other, not interleaved.
RECURSIVE interleave_Concat(_)
interleave_Concat(blocks) ==
    IF Len(blocks) = 0 THEN << >>
    ELSE Head(blocks) \o interleave_Concat(Tail(blocks))

\* interleave: the first bytes of all blocks in block order, then the second
\* bytes, ...; a block that has run out is skipped.
interleave(blocks) ==
    LET n == Len(blocks)
        longest == IF n = 0 THEN 0
                   ELSE CHOOSE m \in {Len(blocks[i]) : i \in 1..n} :
                            \A i \in 1..n : Len(blocks[i]) <= m
        slots == Force([k \in 1..(longest * n) |->
                          <<((k - 1) \div n) + 1, ((k - 1) % n) + 1>>])
        Present(slot) == slot[1] <= Len(blocks[slot[2]])
        kept == SelectSeq(slots, Present)
    IN  Force([k \in 1..Len(kept) |-> blocks[kept[k][2]][kept[k][1]]])

\* construct_codewords: Ok(<<interleaved data, interleaved parity>>).  The
\* data must fill the blocks exactly.
construct_codewords(rawbits, v, ec_level) ==
    LET blk == fetch(v, ec_level, DATA_BYTES_PER_BLOCK, <<0, 0, 0, 0>>)
        ec == fetch(v, ec_level, EC_BYTES_PER_BLOCK, 0)
    IN  IF ~blk.ok THEN blk
        ELSE IF ~ec.ok THEN ec
        ELSE LET b == blk.val
                 count == b[2] + b[4]
                 total == b[1] * b[2] + b[3] * b[4]
             IN  IF Len(rawbits) # total THEN Panic
                 ELSE LET blocks == Force([i \in 1..count |->
                                       Force([j \in 1..BlockSize(b, i) |->
                                                rawbits[BlockBegin(b, i) + j]])])
                          parity == Force([i \in 1..count |->
                                       create_error_correction_code(blocks[i], ec.val)])
                      IN  Ok(<<interleave(blocks), interleave(parity)>>)

\* The parity codewords a symbol keeps against misdecoding (the p of
\* ISO/IEC 18004, Table 9), which correct no error: the smallest symbols
\* have some.  The doc test of QrCode::max_allowed_errors (lib.rs:393) shows
\* them: Normal(1)-M, with one block of 10 parity bytes, allows 4 errors.
MisdecodeProtection(v, ec_level) ==
    IF ec_level = L /\ v \in {Micro(2), Normal(1)} THEN 3
    ELSE IF \/ ec_level = L /\ (v.kind = "Micro" \/ v = Normal(2))
            \/ ec_level = M /\ v \in {Micro(2), Normal(1)} THEN 2
    ELSE IF v = Normal(1) \/ (v = Normal(3) /\ ec_level = L) THEN 1
    ELSE 0

\* max_allowed_errors that takes every parity byte for error correction:
\* half the parity bytes of every block.
max_allowed_errors_NoProtection(v, ec_level) ==
    AndThen(fetch(v, ec_level, EC_BYTES_PER_BLOCK, 0), LAMBDA ec :
    AndThen(fetch(v, ec_level, DATA_BYTES_PER_BLOCK, <<0, 0, 0, 0>>), LAMBDA blk :
      Ok((ec \div 2) * (blk[2] + blk[4]))))

\* max_allowed_errors: half of the parity bytes of all blocks that are left
\* for error correction, rounded down.
max_allowed_errors(v, ec_level) ==
    AndThen(fetch(v, ec_level, EC_BYTES_PER_BLOCK, 0), LAMBDA ec :
    AndThen(fetch(v, ec_level, DATA_BYTES_PER_BLOCK, <<0, 0, 0, 0>>), LAMBDA blk :
      Ok(((blk[2] + blk[4]) * ec - MisdecodeProtection(v, ec_level)) \div 2)))

(***************************************************************************)
(* The canvas (canvas): a width x height grid of modules, row-major.  A    *)
(* module is "E" (empty), "LF" / "DF" (light / dark functional), "R"       *)
(* (reserved for format or version information) or "LD" / "DD" (light /    *)
(* dark data).                                                             *)
(***************************************************************************)
Light == "Light"
Dark == "Dark"

Abs(x) == IF x < 0 THEN -x ELSE x

\* Centres of the alignment patterns of Normal versions 1..40.
ALIGNMENT_PATTERN_POSITIONS ==
    << <<>>, <<6, 18>>, <<6, 22>>, <<6, 26>>, <<6, 30>>, <<6, 34>>,
       <<6, 22, 38>>, <<6, 24, 42>>, <<6, 26, 46>>, <<6, 28, 50>>, <<6, 30, 54>>,
       <<6, 32, 58>>, <<6, 34, 62>>,
       <<6, 26, 46, 66>>, <<6, 26, 48, 70>>, <<6, 26, 50, 74>>, <<6, 30, 54, 78>>,
       <<6, 30, 56, 82>>, <<6, 30, 58, 86>>, <<6, 34, 62, 90>>,
       <<6, 28, 50, 72, 94>>, <<6, 26, 50, 74, 98>>, <<6, 30, 54, 78, 102>>,
       <<6, 28, 54, 80, 106>>, <<6, 32, 58, 84, 110>>, <<6, 30, 58, 86, 114>>,
       <<6, 34, 62, 90, 118>>,
       <<6, 26, 50, 74, 98, 122>>, <<6, 30, 54, 78, 102, 126>>,
       <<6, 26, 52, 78, 104, 130>>, <<6, 30, 56, 82, 108, 134>>,
       <<6, 34, 60, 86, 112, 138>>, <<6, 30, 58, 86, 114, 142>>,
       <<6, 34, 62, 90, 118, 146>>,
       <<6, 30, 54, 78, 102, 126, 150>>, <<6, 24, 50, 76, 102, 128, 154>>,
       <<6, 28, 54, 80, 106, 132, 158>>, <<6, 32, 58, 84, 110, 136, 162>>,
       <<6, 26, 54, 82, 110, 138, 166>>, <<6, 30, 58, 86, 114, 142, 170>> >>

\* A 7x7 finder pattern with its one-module light separator, centred at
\* (cx, cy): the module at (x, y), or "E" outside it.
FinderCell(cx, cy, x, y) ==
    LET d == Max(Abs(x - cx), Abs(y - cy))
    IN  IF d > 4 THEN "E" ELSE IF d = 2 \/ d = 4 THEN "LF" ELSE "DF"

\* A 5x5 alignment pattern centred at (cx, cy).
AlignmentCell(cx, cy, x, y) ==
    LET d == Max(Abs(x - cx), Abs(y - cy))
    IN  IF d > 2 THEN "E" ELSE IF d = 1 THEN "LF" ELSE "DF"

\* The first module of a sequence of candidates that is not "E".
FirstDrawn(cells) ==
    IF \E k \in 1..Len(cells) : cells[k] # "E"
    THEN cells[CHOOSE k \in 1..Len(cells) :
                  cells[k] # "E" /\ \A j \in 1..(k - 1) : cells[j] = "E"]
    ELSE "E"

\* The functional module of a Normal symbol of width w at (x, y).
NormalFunctionalCell(v, w, x, y) ==
    LET pos == ALIGNMENT_PATTERN_POSITIONS[v]
        n == Len(pos)
        \* an alignment pattern is left out where a finder pattern stands
        centre(cx, cy) == ~ ( (cx = 6 /\ cy = 6) \/ (cx = 6 /\ cy = w - 7)
                              \/ (cx = w - 7 /\ cy = 6) )
        alignment ==
            IF \E i \in 1..n, j \in 1..n :
                  centre(pos[i], pos[j]) /\ AlignmentCell(pos[i], pos[j], x, y) # "E"
            THEN LET c == CHOOSE c \in {<<pos[i], pos[j]>> : i \in 1..n, j \in 1..n} :
                              centre(c[1], c[2]) /\ AlignmentCell(c[1], c[2], x, y) # "E"
                 IN  AlignmentCell(c[1], c[2], x, y)
            ELSE "E"
        timing == IF x = 6 \/ y = 6
                  THEN (IF (x + y) % 2 = 0 THEN "DF" ELSE "LF")
                  ELSE "E"
        dark == IF x = 8 /\ y = w - 8 THEN "DF" ELSE "E"
        format == IF \/ (x = 8 /\ (y <= 8 \/ y >= w - 7))
                     \/ (y = 8 /\ (x <= 8 \/ x >= w - 8))
                  THEN "R" ELSE "E"
        version == IF v >= 7 /\ ( (x >= w - 11 /\ x <= w - 9 /\ y <= 5)
                                  \/ (y >= w - 11 /\ y <= w - 9 /\ x <= 5) )
                   THEN "R" ELSE "E"
    IN  FirstDrawn(<< FinderCell(3, 3, x, y), FinderCell(w - 4, 3, x, y),
                      FinderCell(3, w - 4, x, y), alignment, timing, dark,
                      format, version >>)

\* The functional module of a Micro symbol at (x, y).
MicroFunctionalCell(x, y) ==
    LET timing == IF x = 0 \/ y = 0
                  THEN (IF (x + y) % 2 = 0 THEN "DF" ELSE "LF")
                  ELSE "E"
        format == IF (x = 8 /\ y >= 1 /\ y <= 8) \/ (y = 8 /\ x >= 1 /\ x <= 8)
                  THEN "R" ELSE "E"
    IN  FirstDrawn(<< FinderCell(3, 3, x, y), timing, format >>)

\* Columns of the alignment patterns of an rMQR symbol, by width.
RMQR_ALIGNMENT_COLUMNS(w) ==
    CASE w = 43 -> <<21>>
      [] w = 59 -> <<19, 39>>
      [] w = 77 -> <<25, 51>>
      [] w = 99 -> <<23, 49, 75>>
      [] w = 139 -> <<27, 55, 83, 111>>
      [] OTHER -> <<>>

\* The functional module of an rMQR symbol of size w x h at (x, y).
RectMicroFunctionalCell(w, h, x, y) ==
    LET cols == RMQR_ALIGNMENT_COLUMNS(w)
        onAlignment == \E k \in 1..Len(cols) : x = cols[k]
        nearAlignment == \E k \in 1..Len(cols) : Abs(x - cols[k]) <= 1
        corner ==
            CASE y = h - 1 /\ x <= 2 -> "DF"
              [] h >= 11 /\ y = h - 2 /\ x = 0 -> "DF"
              [] h >= 11 /\ y = h - 2 /\ x = 1 -> "LF"
              [] y = 0 /\ x >= w - 2 -> "DF"
              [] y = 1 /\ x = w - 1 -> "DF"
              [] y = 1 /\ x = w - 2 -> "LF"
              [] OTHER -> "E"
        alignment ==
            IF nearAlignment /\ (y <= 2 \/ y >= h - 3)
            THEN (IF onAlignment /\ (y = 1 \/ y = h - 2) THEN "LF" ELSE "DF")
            ELSE "E"
        timing ==
            IF y = 0 \/ y = h - 1
            THEN (IF x % 2 = 0 THEN "DF" ELSE "LF")
            ELSE IF x = 0 \/ x = w - 1 \/ onAlignment
                 THEN (IF y % 2 = 0 THEN "DF" ELSE "LF")
                 ELSE "E"
        format ==
            IF \/ (x >= 8 /\ x <= 10 /\ y >= 1 /\ y <= 5)
               \/ (x = 11 /\ y >= 1 /\ y <= 3)
               \/ (x >= w - 8 /\ x <= w - 6 /\ y >= h - 6 /\ y <= h - 2)
               \/ (x >= w - 5 /\ x <= w - 3 /\ y = h - 6)
            THEN "R" ELSE "E"
    IN  FirstDrawn(<< FinderCell(3, 3, x, y), corner,
                      AlignmentCell(w - 3, h - 3, x, y), alignment, timing,
                      format >>)

\* The module that draw_all_functional_patterns leaves at (x, y): "E" where
\* it draws nothing.
FunctionalCell(v, x, y) ==
    CASE v.kind = "Normal" -> NormalFunctionalCell(v.a, width(v), x, y)
      [] v.kind = "Micro" -> MicroFunctionalCell(x, y)
      [] OTHER -> RectMicroFunctionalCell(width(v), height(v), x, y)

\* is_functional(version, width, x, y): whether the functional patterns
\* write or reserve the module at (x, y).
is_functional(v, w, x, y) == FunctionalCell(v, x, y) # "E"

\* Canvas::new: an empty grid of the version's size.
Canvas_new(v, ec_level) ==
    [version |-> v, ec_level |-> ec_level, width |-> width(v), height |-> height(v),
     modules |-> Force([i \in 1..(width(v) * height(v)) |-> "E"])]

\* The coordinates of the k-th module (k from 1) of a row-major grid.
ModuleX(w, k) == (k - 1) % w
ModuleY(w, k) == (k - 1) \div w

\* Canvas::draw_all_functional_patterns.
draw_all_functional_patterns(c) ==
    [c EXCEPT !.modules =
        Force([k \in 1..Len(c.modules) |->
                  LET f == FunctionalCell(c.version, ModuleX(c.width, k), ModuleY(c.width, k))
                  IN  IF f # "E" THEN f ELSE c.modules[k]])]

\* Whether the module at (x, y) is dark, with everything outside the grid
\* and every module not yet drawn counted as light.
IsDark(c, x, y) ==
    /\ x >= 0 /\ x < c.width /\ y >= 0 /\ y < c.height
    /\ c.modules[y * c.width + x + 1] \in {"DF", "DD"}

\* The zig-zag scan of the data modules: strips two columns wide from the
\* right edge, the first strip upwards, the next downwards, and so on.  A
\* Normal symbol skips the timing column 6; an rMQR symbol starts left of
\* its right timing column and its scan ends with the strip of columns 3
\* and 2 (the symbol of test_annex_i_rmqr carries no codeword bit in column
\* 1).  ScanModule is the p-th module (p from 1) of the scan, as an index
\* into the grid.
StripCount(v) ==
    IF v.kind = "RectMicro" THEN (width(v) - 3) \div 2 ELSE (width(v) - 1) \div 2

StripRightColumn(v, s) ==
    CASE v.kind = "Normal" ->
            LET r == width(v) - 1 - 2 * s IN IF r <= 6 THEN r - 1 ELSE r
      [] v.kind = "Micro" -> width(v) - 1 - 2 * s
      [] OTHER -> width(v) - 2 - 2 * s

ScanModule(v, p) ==
    LET h == height(v)
        s == (p - 1) \div (2 * h)
        q == (p - 1) % (2 * h)
        y == IF s % 2 = 0 THEN h - 1 - (q \div 2) ELSE q \div 2
        x == StripRightColumn(v, s) - (q % 2)
    IN  y * width(v) + x + 1

\* Whether the last data codeword of the symbol is four bits wide.
IsHalfCodewordAtEnd(v, ec_level) ==
    v.kind = "Micro" /\ ( (v.a = 1 /\ ec_level = L) \/ (v.a = 3 /\ ec_level \in {L, M}) )

\* The bits of the codewords, high bit first; with `half`, only the high
\* four bits of the last codeword.
CodewordBits(codewords, half) ==
    LET n == Len(codewords)
        total == IF half /\ n > 0 THEN 8 * n - 4 ELSE 8 * n
    IN  Force([i \in 1..total |->
                  (codewords[((i - 1) \div 8) + 1] \div (2 ^ (7 - ((i - 1) % 8)))) % 2])

\* One step of the placement: the p-th module of the scan takes the next bit
\* of the stream if it is empty, light once the stream is used up.
PlaceStep(st, v, stream, p) ==
    LET k == ScanModule(v, p)
    IN  IF st.modules[k] # "E" THEN st
        ELSE [modules |-> [st.modules EXCEPT ![k] =
                              IF st.next <= Len(stream) /\ stream[st.next] = 1
                              THEN "DD" ELSE "LD"],
              next |-> st.next + 1]

RECURSIVE PlaceFold(_, _, _, _, _)
PlaceFold(st, v, stream, lo, hi) ==
    IF lo > hi THEN st
    ELSE IF lo = hi THEN PlaceStep(st, v, stream, lo)
    ELSE LET mid == (lo + hi) \div 2
             left == PlaceFold(st, v, stream, lo, mid)
         IN  IF left.next = left.next
             THEN PlaceFold(left, v, stream, mid + 1, hi)
             ELSE st

\* Canvas::draw_data: the data codewords, then the error correction
\* codewords, along the scan; the modules left over, in the scan or out of
\* it, are light data modules.
draw_data(c, data, ec) ==
    LET stream == CodewordBits(data, IsHalfCodewordAtEnd(c.version, c.ec_level))
                  \o CodewordBits(ec, FALSE)
        st == PlaceFold([modules |-> c.modules, next |-> 1], c.version, stream,
                        1, 2 * c.height * StripCount(c.version))
    IN  [c EXCEPT !.modules =
            Force([k \in 1..Len(st.modules) |->
                      IF st.modules[k] = "E" THEN "LD" ELSE st.modules[k]])]

\* The eight mask patterns of a Normal symbol, 0..7: whether the data module
\* at (x, y) is inverted.
MaskFunction(pattern, x, y) ==
    CASE pattern = 0 -> (x + y) % 2 = 0
      [] pattern = 1 -> y % 2 = 0
      [] pattern = 2 -> x % 3 = 0
      [] pattern = 3 -> (x + y) % 3 = 0
      [] pattern = 4 -> ((y \div 2) + (x \div 3)) % 2 = 0
      [] pattern = 5 -> ((x * y) % 2) + ((x * y) % 3) = 0
      [] pattern = 6 -> (((x * y) % 2) + ((x * y) % 3)) % 2 = 0
      [] pattern = 7 -> (((x + y) % 2) + ((x * y) % 3)) % 2 = 0

\* The mask patterns a symbol kind chooses from, as Normal pattern numbers:
\* eight for Normal, four for Micro, one for rMQR.
MaskPatterns(v) ==
    CASE v.kind = "Normal" -> <<0, 1, 2, 3, 4, 5, 6, 7>>
      [] v.kind = "Micro" -> <<1, 4, 6, 7>>
      [] OTHER -> <<4>>

\* Canvas::apply_mask without the format information: every data module
\* where the pattern holds is inverted; no other module changes.
MaskData(c, pattern) ==
    [c EXCEPT !.modules =
        Force([k \in 1..Len(c.modules) |->
                  LET m == c.modules[k]
                  IN  IF m \in {"LD", "DD"}
                         /\ MaskFunction(pattern, ModuleX(c.width, k), ModuleY(c.width, k))
                      THEN (IF m = "LD" THEN "DD" ELSE "LD")
                      ELSE m])]

\* The remainder of value (of `bits` bits) divided by the generator
\* polynomial gen of degree deg, over GF(2).
RECURSIVE BchRemainder(_, _, _, _)
BchRemainder(value, gen, deg, bits) ==
    IF bits <= deg THEN value
    ELSE IF (value \div (2 ^ (bits - 1))) % 2 = 1
         THEN BchRemainder(Xor(value, gen * (2 ^ (bits - 1 - deg))), gen, deg, bits - 1)
         ELSE BchRemainder(value, gen, deg, bits - 1)

\* The 15-bit format information of a Normal or Micro symbol: five data bits,
\* ten BCH(15,5) bits, the whole masked.
FormatInfo15(data5, xorMask) ==
    Xor(data5 * 1024 + BchRemainder(data5 * 1024, 1335, 10, 15), xorMask)

\* The 18-bit BCH(18,6) word of six data bits.
Bch18(data6) == data6 * 4096 + BchRemainder(data6 * 4096, 7973, 12, 18)

\* The symbol number of a Micro version and level.
MicroSymbolNumber(v, ec_level) ==
    CASE v.a = 1 -> 0
      [] v.a = 2 -> 1 + ec_level
      [] v.a = 3 -> 3 + ec_level
      [] OTHER -> 5 + ec_level

\* The format information modules of the symbol for the mask of index
\* maskIndex (0-based, into MaskPatterns), as <<x, y, bit>> triples.
FormatPlacement(v, ec_level, maskIndex) ==
    LET w == width(v)
        h == height(v)
        bit(word, i) == (word \div (2 ^ i)) % 2
    IN  CASE v.kind = "Normal" ->
                LET f == FormatInfo15((CASE ec_level = L -> 1 [] ec_level = M -> 0
                                         [] ec_level = Q -> 3 [] OTHER -> 2) * 8
                                      + maskIndex, 21522)
                IN  [i \in 1..15 |->
                        LET n == i - 1
                        IN  << IF n <= 7 THEN 8 ELSE IF n = 8 THEN 7 ELSE 14 - n,
                               IF n <= 5 THEN n ELSE IF n = 6 THEN 7 ELSE 8,
                               bit(f, n) >>]
                    \o [i \in 1..15 |->
                        LET n == i - 1
                        IN  << IF n <= 7 THEN w - 1 - n ELSE 8,
                               IF n <= 7 THEN 8 ELSE h - 15 + n,
                               bit(f, n) >>]
          [] v.kind = "Micro" ->
                LET f == FormatInfo15(MicroSymbolNumber(v, ec_level) * 4 + maskIndex, 17477)
                IN  [i \in 1..15 |->
                        LET n == i - 1
                        IN  << IF n <= 7 THEN 8 ELSE 15 - n,
                               IF n <= 7 THEN n + 1 ELSE 8,
                               bit(f, n) >>]
          [] OTHER ->
                LET idx == rect_micro_index(v)
                    d == (IF ec_level = H THEN 32 ELSE 0) + idx.val
                    f1 == Xor(Bch18(d), 129714)
                    f2 == Xor(Bch18(d), 133755)
                IN  [i \in 1..18 |->
                        LET n == i - 1
                        IN  << 8 + (n \div 5), 1 + (n % 5), bit(f1, n) >>]
                    \o [i \in 1..18 |->
                        LET n == i - 1
                        IN  << IF n < 15 THEN w - 8 + (n \div 5) ELSE w - 5 + (n - 15),
                               IF n < 15 THEN h - 6 + (n % 5) ELSE h - 6,
                               bit(f2, n) >>]

\* The version information modules of a Normal symbol of version 7 or more.
VersionPlacement(v) ==
    IF v.kind = "Normal" /\ v.a >= 7
    THEN LET w == width(v)
             f == Bch18(v.a)
         IN  [i \in 1..18 |->
                 << (i - 1) \div 3, w - 11 + ((i - 1) % 3), (f \div (2 ^ (i - 1))) % 2 >>]
             \o [i \in 1..18 |->
                 << w - 11 + ((i - 1) % 3), (i - 1) \div 3, (f \div (2 ^ (i - 1))) % 2 >>]
    ELSE << >>

\* Writes the triples cells[i..] as functional modules.
RECURSIVE WriteCells(_, _, _, _)
WriteCells(modules, w, cells, i) ==
    IF i > Len(cells) THEN modules
    ELSE WriteCells([modules EXCEPT ![cells[i][2] * w + cells[i][1] + 1] =
                        IF cells[i][3] = 1 THEN "DF" ELSE "LF"],
                    w, cells, i + 1)

\* Canvas::apply_mask: the data modules masked with the pattern of index
\* maskIndex and the format and version information written.
apply_mask(c, maskIndex) ==
    LET masked == MaskData(c, MaskPatterns(c.version)[maskIndex + 1])
    IN  [masked EXCEPT !.modules =
            WriteCells(masked.modules, c.width,
                       FormatPlacement(c.version, c.ec_level, maskIndex)
                       \o VersionPlacement(c.version), 1)]

\* The dark modules of the canvas as a row-major tuple of booleans.
DarkModules(c) ==
    Force([k \in 1..Len(c.modules) |-> c.modules[k] \in {"DF", "DD"}])

\* The module i of a line of a w-wide grid of booleans: rows (horizontal)
\* read (i, line), columns read (line, i).
LineDark(dark, w, horizontal, line, i) ==
    IF horizontal THEN dark[line * w + i + 1] ELSE dark[i * w + line + 1]

\* N1: each run of five or more modules of one colour in a row or a column
\* costs 3 plus one for every module beyond five.
AdjacentPenalty(dark, w, h, horizontal) ==
    LET lines == IF horizontal THEN h ELSE w
        len == IF horizontal THEN w ELSE h
        d(line, i) == LineDark(dark, w, horizontal, line, i)
        same(line, i) ==
            /\ d(line, i + 1) = d(line, i) /\ d(line, i + 2) = d(line, i)
            /\ d(line, i + 3) = d(line, i) /\ d(line, i + 4) = d(line, i)
        starts(line, i) == i = 0 \/ d(line, i - 1) # d(line, i)
        windows == {p \in (0..(lines - 1)) \X (0..(len - 5)) : same(p[1], p[2])}
        first == {p \in windows : starts(p[1], p[2])}
    IN  Cardinality(windows) + 2 * Cardinality(first)

\* N2: each 2x2 block of one colour costs 3.
BlockPenalty(dark, w, h) ==
    3 * Cardinality({p \in (0..(w - 2)) \X (0..(h - 2)) :
            LET k == p[2] * w + p[1] + 1
            IN  /\ dark[k] = dark[k + 1]
                /\ dark[k] = dark[k + w]
                /\ dark[k] = dark[k + w + 1]})

\* N3: each 1:1:3:1:1 pattern in a row or a column with four light modules
\* before it or after it costs 40; beyond the edge counts as light.
FinderPenalty(dark, w, h, horizontal) ==
    LET lines == IF horizontal THEN h ELSE w
        len == IF horizontal THEN w ELSE h
        d(line, i) == LineDark(dark, w, horizontal, line, i)
        out(line, i) == i < 0 \/ i >= len \/ ~d(line, i)
        pattern(line, i) ==
            /\ d(line, i) /\ ~d(line, i + 1) /\ d(line, i + 2) /\ d(line, i + 3)
            /\ d(line, i + 4) /\ ~d(line, i + 5) /\ d(line, i + 6)
        margin(line, i) ==
            \/ \A k \in (i - 4)..(i - 1) : out(line, k)
            \/ \A k \in (i + 7)..(i + 10) : out(line, k)
    IN  40 * Cardinality({p \in (0..(lines - 1)) \X (0..(len - 7)) :
                              pattern(p[1], p[2]) /\ margin(p[1], p[2])})

\* N4: 10 for every whole 5% by which the share of dark modules is away
\* from 50%.
BalancePenalty(dark) ==
    LET count == Cardinality({k \in 1..Len(dark) : dark[k]})
        total == Len(dark)
    IN  10 * ((Abs(20 * count - 10 * total)) \div total)

\* The penalty of a masked Normal symbol: N1 + N2 + N3 + N4.
NormalPenalty(c) ==
    LET dark == DarkModules(c)
        w == c.width
        h == c.height
    IN  AdjacentPenalty(dark, w, h, TRUE) + AdjacentPenalty(dark, w, h, FALSE)
        + BlockPenalty(dark, w, h)
        + FinderPenalty(dark, w, h, TRUE) + FinderPenalty(dark, w, h, FALSE)
        + BalancePenalty(dark)

\* The evaluation of a masked Micro symbol: the dark modules of the right
\* and of the bottom edge, the lesser count weighted 16; greater is better.
MicroEvaluation(c) ==
    LET sum1 == Cardinality({y \in 1..(c.height - 1) : IsDark(c, c.width - 1, y)})
        sum2 == Cardinality({x \in 1..(c.width - 1) : IsDark(c, x, c.height - 1)})
    IN  16 * Min(sum1, sum2) + Max(sum1, sum2)

\* The cost of a masked symbol; the least cost wins.
MaskCost(c) ==
    CASE c.version.kind = "Normal" -> NormalPenalty(c)
      [] c.version.kind = "Micro" -> 0 - MicroEvaluation(c)
      [] OTHER -> 0

\* The 0-based index of the best mask: the first of least cost.
BestMaskIndex(c) ==
    LET n == Len(MaskPatterns(c.version))
        cost == Force([i \in 1..n |-> MaskCost(apply_mask(c, i - 1))])
    IN  (CHOOSE i \in 1..n :
            /\ \A j \in 1..n : cost[i] <= cost[j]
            /\ \A j \in 1..(i - 1) : cost[j] > cost[i]) - 1

\* Canvas::apply_best_mask
apply_best_mask(c) == apply_mask(c, BestMaskIndex(c))

\* Canvas::into_colors: the colour of every module, row-major.
Canvas_into_colors(c) ==
    Force([k \in 1..Len(c.modules) |->
              IF c.modules[k] \in {"DF", "DD"} THEN Dark ELSE Light])

\* to_debug_str of a colour vector: one string of '#' and '.' per module.
DebugRows(colors, w) ==
    [y \in 1..(Len(colors) \div w) |->
        [x \in 1..w |-> IF colors[(y - 1) * w + x] = Dark THEN "#" ELSE "."]]

(***************************************************************************)
(* Automatic version selection (bits).                                     *)
(***************************************************************************)
\* The bits of the optimal encoding of data for version v, terminated for
\* the level: what with_version builds before with_bits.
EncodeVersion(b, data, v, ec_level) ==
    AndThen(push_optimal_data(b, Bits_new(v), data),
            LAMBDA bits : push_terminator(b, bits, ec_level))

\* Whether the optimal encoding of data for version v fits the capacity of
\* (v, ec_level).
Fits(b, data, v, ec_level) ==
    Bind(Optimize(b, data, v), LAMBDA o :
    Bind(fetch(v, ec_level, DATA_LENGTHS, 0), LAMBDA cap :
      o.ok /\ cap.ok /\ o.val.total_len <= cap.val))

\* encode_auto: the Normal versions 1..40 in order, the first that fits.
RECURSIVE encode_auto_from(_, _, _, _)
encode_auto_from(b, data, ec_level, n) ==
    IF n > 40 THEN Err("DataTooLong")
    ELSE IF Fits(b, data, Normal(n), ec_level)
         THEN EncodeVersion(b, data, Normal(n), ec_level)
         ELSE encode_auto_from(b, data, ec_level, n + 1)

encode_auto(b, data, ec_level) == encode_auto_from(b, data, ec_level, 1)

\* encode_auto_micro: the Micro versions 1..4 in order, the first whose
\* encoding succeeds.
RECURSIVE encode_auto_micro_from(_, _, _, _)
encode_auto_micro_from(b, data, ec_level, n) ==
    IF n > 4 THEN Err("DataTooLong")
    ELSE Bind(EncodeVersion(b, data, Micro(n), ec_level),
              LAMBDA bits : IF bits.ok THEN bits
                            ELSE encode_auto_micro_from(b, data, ec_level, n + 1))

encode_auto_micro(b, data, ec_level) == encode_auto_micro_from(b, data, ec_level, 1)

\* RectMicroStrategy::Area: the 32 rMQR sizes by module count, least first,
\* sizes of one module count in table order.
AreaOrder ==
    LET area(i) == RectMicroSizes[i][1] * RectMicroSizes[i][2]
        before(i, j) == area(i) < area(j) \/ (area(i) = area(j) /\ i < j)
    IN  Force([k \in 1..32 |->
            CHOOSE i \in 1..32 : Cardinality({j \in 1..32 : before(j, i)}) = k - 1])

\* encode_auto_rect_micro with the Area strategy: the first size in the
\* strategy's order whose encoding succeeds.
RECURSIVE encode_auto_rect_micro_from(_, _, _, _)
encode_auto_rect_micro_from(b, data, ec_level, k) ==
    IF k > 32 THEN Err("DataTooLong")
    ELSE Bind(EncodeVersion(b, data,
                            RectMicro(RectMicroSizes[AreaOrder[k]][1],
                                      RectMicroSizes[AreaOrder[k]][2]), ec_level),
              LAMBDA bits : IF bits.ok THEN bits
                            ELSE encode_auto_rect_micro_from(b, data, ec_level, k + 1))

encode_auto_rect_micro(b, data, ec_level) ==
    encode_auto_rect_micro_from(b, data, ec_level, 1)

(***************************************************************************)
(* The facade (lib.rs).  A QrCode is the record of its fields; the stages  *)
(* of with_bits are the canvas after each of its steps.                    *)
(***************************************************************************)
\* QrCodeOf with the two sides exchanged.
QrCodeOf_Transposed(b, canvas, version, ec_level) ==
    LET w == as_usize(b, width(version))
        h == as_usize(b, height(version))
    IN  IF ~w.ok THEN w
        ELSE IF ~h.ok THEN h
        ELSE Ok([content |-> Canvas_into_colors(canvas),
                 version |-> version,
                 ec_level |-> ec_level,
                 width |-> h.val,
                 height |-> w.val])

\* The QrCode that with_bits returns for a masked canvas: its colours, the
\* version and level, and the version's width and height as usize.
QrCodeOf(b, canvas, version, ec_level) ==
    LET w == as_usize(b, width(version))
        h == as_usize(b, height(version))
    IN  IF ~w.ok THEN w
        ELSE IF ~h.ok THEN h
        ELSE Ok([content |-> Canvas_into_colors(canvas),
                 version |-> version,
                 ec_level |-> ec_level,
                 width |-> w.val,
                 height |-> h.val])

\* with_bits without its draw_all_functional_patterns.
with_bits_stages_NoPatterns(b, bits, ec_level) ==
    Bind(construct_codewords(into_bytes(bits), bits.version, ec_level), LAMBDA cw :
      IF ~cw.ok THEN [result |-> cw, stages |-> << >>]
      ELSE
        Bind(Canvas_new(bits.version, ec_level), LAMBDA c1 :
        Bind(draw_data(c1, cw.val[1], cw.val[2]), LAMBDA c2 :
        Bind(apply_best_mask(c2), LAMBDA c3 :
          [result |-> QrCodeOf(b, c3, bits.version, ec_level),
           stages |-> << c1.modules, c2.modules, c3.modules >>]))))

\* QrCode::with_bits, with the canvas after each step: the record
\* [result, stages], result being Ok(QrCode), Err(e) or Panic.
with_bits_stages(b, bits, ec_level) ==
    Bind(construct_codewords(into_bytes(bits), bits.version, ec_level), LAMBDA cw :
      IF ~cw.ok THEN [result |-> cw, stages |-> << >>]
      ELSE
        Bind(draw_all_functional_patterns(Canvas_new(bits.version, ec_level)), LAMBDA c1 :
        Bind(draw_data(c1, cw.val[1], cw.val[2]), LAMBDA c2 :
        Bind(apply_best_mask(c2), LAMBDA c3 :
          [result |-> QrCodeOf(b, c3, bits.version, ec_level),
           stages |-> << c1.modules, c2.modules, c3.modules >>]))))

with_bits(b, bits, ec_level) == with_bits_stages(b, bits, ec_level).result

\* The rest of a constructor once its bits are built (the `?` of the code).
Build(b, bits, ec_level) ==
    IF ~bits.ok THEN [result |-> bits, stages |-> << >>]
    ELSE with_bits_stages(b, bits.val, ec_level)

\* with_version without its push_terminator.
with_version_Unterminated(b, data, v, ec_level) ==
    Build(b, push_optimal_data(b, Bits_new(v), data), ec_level)

\* QrCode::with_version
with_version(b, data, v, ec_level) == Build(b, EncodeVersion(b, data, v, ec_level), ec_level)

\* with_error_correction_level that selects no version: always Normal(2).
with_error_correction_level_Fixed(b, data, ec_level) ==
    Build(b, EncodeVersion(b, data, Normal(2), ec_level), ec_level)

\* QrCode::with_error_correction_level
with_error_correction_level(b, data, ec_level) ==
    Build(b, encode_auto(b, data, ec_level), ec_level)

\* QrCode::micro_with_error_correction_level
micro_with_error_correction_level(b, data, ec_level) ==
    Build(b, encode_auto_micro(b, data, ec_level), ec_level)

\* rect_micro_with_error_correction_level with RectMicroStrategy::Height:
\* the sizes by height, then width (the order of rect_micro_index).
RECURSIVE encode_by_height_from(_, _, _, _)
encode_by_height_from(b, data, ec_level, k) ==
    IF k > 32 THEN Err("DataTooLong")
    ELSE Bind(EncodeVersion(b, data, RectMicro(RectMicroSizes[k][1], RectMicroSizes[k][2]),
                            ec_level),
              LAMBDA bits : IF bits.ok THEN bits
                            ELSE encode_by_height_from(b, data, ec_level, k + 1))

rect_micro_with_error_correction_level_Height(b, data, ec_level) ==
    Build(b, encode_by_height_from(b, data, ec_level, 1), ec_level)

\* QrCode::rect_micro_with_error_correction_level
rect_micro_with_error_correction_level(b, data, ec_level) ==
    Build(b, encode_auto_rect_micro(b, data, ec_level), ec_level)

\* QrCode::new at the lowest level.
new_LevelL(b, data) == with_error_correction_level(b, data, L)

\* QrCode::new, QrCode::new_micro, QrCode::new_rect_micro
new(b, data) == with_error_correction_level(b, data, M)
new_micro(b, data) == micro_with_error_correction_level(b, data, M)
new_rect_micro(b, data) == rect_micro_with_error_correction_level(b, data, M)

\* QrCode::version, QrCode::error_correction_level, QrCode::width,
\* QrCode::height
QrCode_version(qr) == qr.version
QrCode_error_correction_level(qr) == qr.ec_level
QrCode_width(qr) == qr.width
QrCode_height(qr) == qr.height

\* max_allowed_errors that looks the level Q up whatever the level of the
\* code.
QrCode_max_allowed_errors_LevelQ(qr) ==
    Bind(max_allowed_errors(qr.version, Q), LAMBDA r :
      IF r.ok THEN r ELSE Panic)

\* QrCode::max_allowed_errors: ec::max_allowed_errors(..).expect(..)
QrCode_max_allowed_errors(qr) ==
    Bind(max_allowed_errors(qr.version, qr.ec_level), LAMBDA r :
      IF r.ok THEN r ELSE Panic)

\* Renderer::new: the renderer of a slice of colours of the given width and
\* height with a quiet zone.
Renderer_new(content, w, h, quiet_zone) ==
    [content |-> content, width |-> w, height |-> h, quiet_zone |-> quiet_zone]

\* render with the quiet zone of a Normal symbol for every symbol.
render_QuietZone4(qr) == Renderer_new(qr.content, qr.width, qr.height, 4)

\* QrCode::render
render(qr) ==
    Renderer_new(qr.content, qr.width, qr.height, IF is_normal(qr.version) THEN 4 ELSE 2)

\* QrCode::to_colors
to_colors(qr) == qr.content

\* Index reading the vector column by column.
Index_ColumnMajor(qr, x, y) ==
    LET index == x * qr.height + y
    IN  IF index >= Len(qr.content) THEN Panic ELSE Ok(qr.content[index + 1])

\* Index<(usize, usize)>: content[y * width + x]; an index out of the
\* vector's bounds panics.
Index(qr, x, y) ==
    LET index == y * qr.width + x
    IN  IF index >= Len(qr.content) THEN Panic ELSE Ok(qr.content[index + 1])

(***************************************************************************)
(* src/render/string.rs: the canvas of the string renderer.  A pixel (a    *)
(* char or a &str) and the image (a String) are the sequences of their     *)
(* UTF-8 bytes.                                                            *)
(***************************************************************************)
\* Element::str_len: the number of bytes of the pixel.
str_len(pixel) == Len(pixel)

\* <Canvas<P> as RenderCanvas>::new
String_Canvas_new(w, h, dark_pixel, light_pixel) ==
    [buffer |-> [i \in 1..(w * h) |-> light_pixel],
     width |-> w,
     dark_pixel |-> dark_pixel,
     dark_cap_inc |-> str_len(dark_pixel) - str_len(light_pixel),
     capacity |-> str_len(light_pixel) * w * h + (h - 1)]

\* <Canvas<P> as RenderCanvas>::draw_dark_pixel: the canvas after the call,
\* or the panic of an index past the end of the buffer.
String_draw_dark_pixel(canvas, x, y) ==
    IF x + y * canvas.width >= Len(canvas.buffer) THEN Panic
    ELSE Ok([canvas EXCEPT !.capacity = @ + canvas.dark_cap_inc,
                           !.buffer[x + y * canvas.width + 1] = canvas.dark_pixel])

\* into_image that ends every row with a newline.
String_into_image_TrailingNewline(b, canvas) ==
    IF ~as_usize(b, canvas.capacity).ok \/ as_usize(b, canvas.capacity).val < 0 THEN Panic
    ELSE Ok(Flatten([i \in 1..Len(canvas.buffer) |->
                        IF i % canvas.width = 0
                        THEN canvas.buffer[i] \o <<10>>
                        ELSE canvas.buffer[i]],
                    1, Len(canvas.buffer)))

\* <Canvas<P> as RenderCanvas>::into_image: a '\n' (10) before every pixel
\* whose index is a multiple of the width, the first excepted.  A negative
\* capacity panics: in as_usize with debug_assertions, and otherwise in
\* String::with_capacity, which is given the wrapped value (kept here as
\* the negative integer), more than isize::MAX bytes.
String_into_image(b, canvas) ==
    IF ~as_usize(b, canvas.capacity).ok \/ as_usize(b, canvas.capacity).val < 0 THEN Panic
    ELSE Ok(Flatten([i \in 1..Len(canvas.buffer) |->
                        IF i # 1 /\ (i - 1) % canvas.width = 0
                        THEN <<10>> \o canvas.buffer[i]
                        ELSE canvas.buffer[i]],
                    1, Len(canvas.buffer)))

(***************************************************************************)
(* src/render/eps.rs: the canvas of the EPS renderer.  The text is the     *)
(* sequence of its lines; a line is the sequence of its operands and its   *)
(* operator.  A colour is the triple of its components.                    *)
(***************************************************************************)
\* <eps::Canvas as RenderCanvas>::new: the header, the bounding box, the
\* background in the light colour, and the dark colour for what follows.
Eps_Canvas_new(w, h, dark_pixel, light_pixel) ==
    [eps |-> << <<"%!PS-Adobe-3.0 EPSF-3.0">>,
                <<"%%BoundingBox:", 0, 0, w, h>>,
                <<"%%Pages:", 1>>,
                <<"%%EndComments">>,
                <<"gsave">>,
                <<light_pixel[1], light_pixel[2], light_pixel[3], "setrgbcolor">>,
                <<0, 0, w, h, "rectfill">>,
                <<"grestore">>,
                <<dark_pixel[1], dark_pixel[2], dark_pixel[3], "setrgbcolor">> >>,
     height |-> h]

\* <eps::Canvas as RenderCanvas>::draw_dark_rect: self.height - top is a
\* u32 subtraction, which panics below zero with overflow checks (the debug
\* build) and wraps without; a u32 that wrapped is kept as the negative
\* integer it is congruent to modulo 2^32.
Eps_draw_dark_rect(b, canvas, left, top, w, h) ==
    IF top > canvas.height /\ b = "debug" THEN Panic
    ELSE Ok([canvas EXCEPT !.eps =
                Append(@, <<left, canvas.height - top, w, h, "rectfill">>)])

\* <eps::Canvas as RenderCanvas>::draw_dark_pixel
Eps_draw_dark_pixel(b, canvas, x, y) == Eps_draw_dark_rect(b, canvas, x, y, 1, 1)

\* <eps::Canvas as RenderCanvas>::into_image
Eps_into_image(canvas) == Append(canvas.eps, <<"%%EOF">>)

(***************************************************************************)
(* The inputs a caller can construct, within the bounds.                   *)
(***************************************************************************)
RectHeightArgs == {0, 7, 8, 9, 11, 13, 15, 17}
RectWidthArgs == {0, 27, 28, 43, 59, 77, 99, 139}

VersionArgs ==
    {Normal(n) : n \in MinVersionArg..MaxVersionArg}
    \cup {Micro(n) : n \in MinVersionArg..MaxVersionArg}
    \cup {RectMicro(h, w) : h \in RectHeightArgs, w \in RectWidthArgs}

IsValidVersion(v) == is_normal(v) \/ is_micro(v) \/ is_rect_micro(v)

\* The versions the constructors are given: the smallest symbols of each
\* kind and versions out of range on both sides.
MaxDrawnNormal == 1
MaxMicroArg == 5

ConstructorVersionArgs ==
    {Normal(n) : n \in (MinVersionArg..MaxDrawnNormal) \cup {41, MaxVersionArg}}
    \cup {Micro(n) : n \in MinVersionArg..MaxMicroArg}
    \cup {RectMicro(7, 43), RectMicro(15, 43), RectMicro(7, 27), RectMicro(8, 43),
          RectMicro(0, 0)}

\* The digits "0123456789012..." of length n.
Digits(n) == Force([i \in 1..n |-> 48 + ((i - 1) % 10)])

\* Lengths of digit strings on both sides of a capacity: 5 digits fill
\* Micro(1)-L, 8 fill Micro(2)-M, 34 fill Normal(1)-M, 36 are one bit more
\* than Micro(4)-L holds.
DigitLens == {1, 5, 6, 8, 34, 35, 36}

\* More bytes than Normal(40)-H holds.
HugeLen == 1274
Huge == Force([i \in 1..HugeLen |-> 97])

\* "A", "a", "Some data", one Shift-JIS character, and a mix of modes.
TextArgs ==
    { <<65>>, <<97>>, <<83, 111, 109, 101, 32, 100, 97, 116, 97>>, <<147, 95>>,
      <<65, 49, 97>> }

DataArgs == { << >> } \cup {Digits(n) : n \in DigitLens} \cup TextArgs

NoCode == [content |-> << >>, version |-> Normal(0), ec_level |-> L,
           width |-> 0, height |-> 0]

NoArg == [version |-> Normal(0), ec_level |-> L, data |-> << >>,
          bits |-> Bits_new(Normal(0)), x |-> 0, y |-> 0,
          mode |-> Numeric, other |-> Numeric, raw_data_len |-> 0,
          table |-> "none", n |-> 0, number |-> 0, pushes |-> 0,
          size |-> <<0, 0>>, pixels |-> << << >>, << >> >>, drawn |-> {},
          canvas |-> << >>, rect |-> <<0, 0>>]

(***************************************************************************)
(* The specification of the pure Version operations.                       *)
(***************************************************************************)
InitVersion ==
    /\ build \in {"debug", "release"}
    /\ op = "none"
    /\ arg = NoArg
    /\ ret = Ok(0)
    /\ code = NoCode
    /\ stages = << >>

Width ==
    \E v \in VersionArgs :
        /\ op' = "width"
        /\ arg' = [NoArg EXCEPT !.version = v]
        /\ ret' = Ok(width(v))
        /\ UNCHANGED <<build, code, stages>>

Height ==
    \E v \in VersionArgs :
        /\ op' = "height"
        /\ arg' = [NoArg EXCEPT !.version = v]
        /\ ret' = Ok(height(v))
        /\ UNCHANGED <<build, code, stages>>

NextVersion == Width \/ Height

SpecVersion == InitVersion /\ [][NextVersion]_vars

(***************************************************************************)
(* The specification of the predicates of Version and of Mode.             *)
(***************************************************************************)
\* The caller drops what it holds.
Drop ==
    /\ op # "none"
    /\ op' = "none"
    /\ arg' = NoArg
    /\ ret' = Ok(0)
    /\ code' = NoCode
    /\ stages' = << >>
    /\ UNCHANGED build

\* The lengths data_bits_count is called with.
MaxRawDataLen == 7

\* The state after a call of `name` on the version v returned r.
VersionCall(name, v, r) ==
    /\ op = "none"
    /\ op' = name
    /\ arg' = [NoArg EXCEPT !.version = v]
    /\ ret' = r
    /\ UNCHANGED <<build, code, stages>>

IsNormal == \E v \in VersionArgs : VersionCall("is_normal", v, Ok(is_normal(v)))

IsMicro == \E v \in VersionArgs : VersionCall("is_micro", v, Ok(is_micro(v)))

IsRectMicro == \E v \in VersionArgs : VersionCall("is_rect_micro", v, Ok(is_rect_micro(v)))

RectMicroIndex ==
    \E v \in VersionArgs : VersionCall("rect_micro_index", v, rect_micro_index(v))

ModeBitsCount ==
    \E v \in VersionArgs : VersionCall("mode_bits_count", v, mode_bits_count(build, v))

\* The state after a call of `name` on the modes a and b returned r.
ModeCall(name, a, b, r) ==
    /\ op = "none"
    /\ op' = name
    /\ arg' = [NoArg EXCEPT !.mode = a, !.other = b]
    /\ ret' = r
    /\ UNCHANGED <<build, code, stages>>

PartialCmp == \E a \in Mode, b \in Mode : ModeCall("partial_cmp", a, b, Ok(partial_cmp(a, b)))

ModeMax == \E a \in Mode, b \in Mode : ModeCall("max", a, b, Ok(max(a, b)))

DataBitsCount ==
    \E m \in Mode, n \in 0..MaxRawDataLen :
        /\ op = "none"
        /\ op' = "data_bits_count"
        /\ arg' = [NoArg EXCEPT !.mode = m, !.raw_data_len = n]
        /\ ret' = Ok(data_bits_count(m, n))
        /\ UNCHANGED <<build, code, stages>>

LengthBitsCount ==
    \E m \in Mode, v \in VersionArgs :
        /\ op = "none"
        /\ op' = "length_bits_count"
        /\ arg' = [NoArg EXCEPT !.mode = m, !.version = v]
        /\ ret' = length_bits_count(build, m, v)
        /\ UNCHANGED <<build, code, stages>>

\* The tables fetch is given: two tables of the crate, and tables of a
\* caller: one whose entry at row r and level l is 4r + l + 1, one of
\* zeros ([[0; 4]; 76]) and an empty one.
RowTags == [r \in 1..76 |-> [l \in 1..4 |-> 4 * (r - 1) + l]]

Zeros == [r \in 1..76 |-> <<0, 0, 0, 0>>]

FetchTables == {"DATA_LENGTHS", "EC_BYTES_PER_BLOCK", "RowTags", "Zeros", "Empty"}

TableOf(name) ==
    CASE name = "DATA_LENGTHS" -> DATA_LENGTHS
      [] name = "EC_BYTES_PER_BLOCK" -> EC_BYTES_PER_BLOCK
      [] name = "RowTags" -> RowTags
      [] name = "Zeros" -> Zeros
      [] name = "Empty" -> << >>

Fetch ==
    \E v \in VersionArgs, ec_level \in EcLevel, t \in FetchTables :
        /\ op = "none"
        /\ op' = "fetch"
        /\ arg' = [NoArg EXCEPT !.version = v, !.ec_level = ec_level, !.table = t]
        /\ ret' = fetch(v, ec_level, TableOf(t), 0)
        /\ UNCHANGED <<build, code, stages>>

NextTypes ==
    \/ IsNormal
    \/ IsMicro
    \/ IsRectMicro
    \/ RectMicroIndex
    \/ ModeBitsCount
    \/ PartialCmp
    \/ ModeMax
    \/ DataBitsCount
    \/ LengthBitsCount
    \/ Fetch
    \/ Drop

SpecTypes == InitVersion /\ [][NextTypes]_vars

(***************************************************************************)
(* The specification of the facade: a caller constructs a QrCode, reads    *)
(* it, and drops it.                                                       *)
(***************************************************************************)
Init ==
    /\ build \in {"debug", "release"}
    /\ op = "none"
    /\ arg = NoArg
    /\ ret = Ok(0)
    /\ code = NoCode
    /\ stages = << >>

\* The state after a constructor returned r = [result, stages].
Constructed(name, a, r) ==
    /\ op' = name
    /\ arg' = a
    /\ ret' = r.result
    /\ code' = IF r.result.ok THEN r.result.val ELSE NoCode
    /\ stages' = r.stages
    /\ UNCHANGED build

\* The arguments of with_version: every data for every version and level,
\* and one symbol that carries version information.
WithVersionArgs ==
    (DataArgs \X ConstructorVersionArgs \X EcLevel)
    \cup {<<Digits(8), Normal(7), L>>}

WithVersion ==
    /\ op = "none"
    /\ \E a \in WithVersionArgs :
          Constructed("with_version",
                      [NoArg EXCEPT !.data = a[1], !.version = a[2], !.ec_level = a[3]],
                      with_version(build, a[1], a[2], a[3]))

\* Data longer than Normal(40) holds is given at level H only.
WithErrorCorrectionLevel ==
    /\ op = "none"
    /\ \E ec_level \in EcLevel :
       \E data \in DataArgs \cup (IF ec_level = H THEN {Huge} ELSE {}) :
          Constructed("with_error_correction_level",
                      [NoArg EXCEPT !.data = data, !.ec_level = ec_level],
                      with_error_correction_level(build, data, ec_level))

MicroWithErrorCorrectionLevel ==
    /\ op = "none"
    /\ \E data \in DataArgs, ec_level \in EcLevel :
          Constructed("micro_with_error_correction_level",
                      [NoArg EXCEPT !.data = data, !.ec_level = ec_level],
                      micro_with_error_correction_level(build, data, ec_level))

RectMicroWithErrorCorrectionLevel ==
    /\ op = "none"
    /\ \E data \in DataArgs, ec_level \in EcLevel :
          Constructed("rect_micro_with_error_correction_level",
                      [NoArg EXCEPT !.data = data, !.ec_level = ec_level],
                      rect_micro_with_error_correction_level(build, data, ec_level))

New ==
    /\ op = "none"
    /\ \E data \in DataArgs :
          Constructed("new", [NoArg EXCEPT !.data = data], new(build, data))

NewMicro ==
    /\ op = "none"
    /\ \E data \in DataArgs :
          Constructed("new_micro", [NoArg EXCEPT !.data = data], new_micro(build, data))

NewRectMicro ==
    /\ op = "none"
    /\ \E data \in DataArgs :
          Constructed("new_rect_micro", [NoArg EXCEPT !.data = data],
                      new_rect_micro(build, data))

\* The Bits a caller hands to with_bits: the optimal encoding of data for a
\* version, terminated for some level or not terminated at all.
BitsVersionArgs == {Normal(1), Micro(2), Micro(3), RectMicro(7, 43), Normal(0)}
BitsDataArgs == {Digits(8), <<97>>}

BitsArgs(b) ==
    LET pushed == {push_optimal_data(b, Bits_new(v), data) :
                       v \in BitsVersionArgs, data \in BitsDataArgs}
        open == {r.val : r \in {p \in pushed : p.ok}}
        closed == {push_terminator(b, bits, ec_level) : bits \in open, ec_level \in EcLevel}
    IN  open \cup {r.val : r \in {p \in closed : p.ok}}

WithBits ==
    /\ op = "none"
    /\ \E bits \in BitsArgs(build), ec_level \in EcLevel :
          Constructed("with_bits",
                      [NoArg EXCEPT !.bits = bits, !.ec_level = ec_level],
                      with_bits_stages(build, bits, ec_level))

\* Coordinates along a side of n modules: both ends, the middle, and the
\* first one past the end.
CoordArgs(n) == {0, 1, n \div 2, n - 2, n - 1, n}

\* A caller reads the code a constructor has just returned.
Constructors ==
    {"with_version", "with_error_correction_level", "micro_with_error_correction_level",
     "rect_micro_with_error_correction_level", "new", "new_micro", "new_rect_micro",
     "with_bits"}

ToColors ==
    /\ op \in Constructors
    /\ code # NoCode
    /\ op' = "to_colors"
    /\ arg' = NoArg
    /\ ret' = Ok(to_colors(code))
    /\ UNCHANGED <<build, code, stages>>

\* The state after reading r from the code held.
Read(name, r) ==
    /\ op \in Constructors
    /\ code # NoCode
    /\ op' = name
    /\ arg' = NoArg
    /\ ret' = r
    /\ UNCHANGED <<build, code, stages>>

GetVersion == Read("version", Ok(QrCode_version(code)))

GetErrorCorrectionLevel ==
    Read("error_correction_level", Ok(QrCode_error_correction_level(code)))

GetWidth == Read("width", Ok(QrCode_width(code)))

GetHeight == Read("height", Ok(QrCode_height(code)))

GetMaxAllowedErrors == Read("max_allowed_errors", QrCode_max_allowed_errors(code))

Render == Read("render", Ok(render(code)))

IndexAt ==
    /\ op \in Constructors
    /\ code # NoCode
    /\ \E x \in CoordArgs(code.width), y \in CoordArgs(code.height) :
          /\ op' = "index"
          /\ arg' = [NoArg EXCEPT !.x = x, !.y = y]
          /\ ret' = Index(code, x, y)
          /\ UNCHANGED <<build, code, stages>>

Next ==
    \/ WithVersion
    \/ WithErrorCorrectionLevel
    \/ MicroWithErrorCorrectionLevel
    \/ RectMicroWithErrorCorrectionLevel
    \/ New
    \/ NewMicro
    \/ NewRectMicro
    \/ WithBits
    \/ ToColors
    \/ GetVersion
    \/ GetErrorCorrectionLevel
    \/ GetWidth
    \/ GetHeight
    \/ GetMaxAllowedErrors
    \/ Render
    \/ IndexAt
    \/ Drop

Spec == Init /\ [][Next]_vars

(***************************************************************************)
(* The specification of the bit assembler: a caller optimizes data for a   *)
(* version, pushes it, and terminates the bits for a level.                *)
(***************************************************************************)
\* The versions of the bit assembler's runs: one of each band of Normal
\* versions, the Micro versions and two rMQR sizes.
BitsVersions ==
    {Normal(1), Normal(10), Normal(27), Micro(1), Micro(2), Micro(3), Micro(4),
     RectMicro(7, 43), RectMicro(17, 139)}

\* The bytes of the data: a digit, a letter of the alphanumeric set, a byte
\* outside it, and the two bytes of a Shift-JIS character.
Alphabet == {49, 65, 97, 147, 95}

\* Every string over the alphabet of at most MaxTextLen bytes.
MaxTextLen == 2

RECURSIVE Strings(_)
Strings(n) ==
    IF n = 0 THEN { << >> }
    ELSE LET shorter == Strings(n - 1)
         IN  shorter \cup {Append(s, c) : s \in {t \in shorter : Len(t) = n - 1},
                                          c \in Alphabet}

\* A run of digits between two texts: long enough a run is worth a segment
\* of its own.
RunLens == {2, 4, 8, 13}
RunEnds == { << >>, <<65>>, <<97>>, <<147, 95>> }

BitsDataSet ==
    Strings(MaxTextLen)
    \cup {before \o Digits(n) \o after : before \in RunEnds, n \in RunLens, after \in RunEnds}

InitBits ==
    /\ build \in {"debug", "release"}
    /\ op = "none"
    /\ arg = NoArg
    /\ ret = Ok(0)
    /\ code = NoCode
    /\ stages = << >>

OptimizeData ==
    /\ op = "none"
    /\ \E data \in BitsDataSet, v \in BitsVersions :
          /\ op' = "optimize"
          /\ arg' = [NoArg EXCEPT !.data = data, !.version = v]
          /\ ret' = Optimize(build, data, v)
          /\ UNCHANGED <<build, code, stages>>

PushOptimalData ==
    /\ op = "none"
    /\ \E data \in BitsDataSet, v \in BitsVersions :
          /\ op' = "push_optimal_data"
          /\ arg' = [NoArg EXCEPT !.data = data, !.version = v, !.bits = Bits_new(v)]
          /\ ret' = push_optimal_data(build, Bits_new(v), data)
          /\ UNCHANGED <<build, code, stages>>

\* push_terminator on the bits a successful push_optimal_data returned.
PushTerminator ==
    /\ op = "push_optimal_data"
    /\ ret.ok
    /\ \E ec_level \in EcLevel :
          /\ op' = "push_terminator"
          /\ arg' = [arg EXCEPT !.bits = ret.val, !.ec_level = ec_level]
          /\ ret' = push_terminator(build, ret.val, ec_level)
          /\ UNCHANGED <<build, code, stages>>

NextBits == OptimizeData \/ PushOptimalData \/ PushTerminator \/ Drop

SpecBits == InitBits /\ [][NextBits]_vars

(***************************************************************************)
(* The specification of a bit buffer in the hands of a caller: Bits::new,  *)
(* then pushes one after the other, each on the buffer the last one left.  *)
(* The buffer is arg.bits before a push and ret.val after it; a caller     *)
(* whose push failed drops the buffer.  arg.ec_level is the level the      *)
(* caller builds the symbol for, which only push_terminator is given.      *)
(***************************************************************************)
\* The pushes of a run.
MaxPushes == 3

PushVersions == {Normal(1), Micro(2), RectMicro(7, 43)}

BufferOps ==
    {"Bits::new", "push_number", "push_mode", "push_character_count",
     "push_numeric_data", "push_alphanumeric_data", "push_byte_data",
     "push_kanji_data", "push_eci_designator", "push_terminator"}

BitsNew ==
    /\ op = "none"
    /\ \E v \in PushVersions, ec_level \in EcLevel :
          /\ op' = "Bits::new"
          /\ arg' = [NoArg EXCEPT !.version = v, !.ec_level = ec_level,
                                  !.bits = Bits_new(v)]
          /\ ret' = Ok(Bits_new(v))
          /\ UNCHANGED <<build, code, stages>>

\* A push is made on the buffer the last operation returned.
HoldsBuffer == op \in BufferOps /\ ret.ok /\ arg.pushes < MaxPushes

\* The state after the push `name` with the arguments a returned r.
Pushed(name, a, r) ==
    /\ op' = name
    /\ arg' = [a EXCEPT !.bits = ret.val, !.pushes = arg.pushes + 1]
    /\ ret' = r
    /\ UNCHANGED <<build, code, stages>>

BufferPushNumber ==
    /\ HoldsBuffer
    /\ \E n \in {3, 16} :
          Pushed("push_number", [arg EXCEPT !.n = n, !.number = 5],
                 Ok(push_number(ret.val, n, 5)))

BufferPushMode ==
    /\ HoldsBuffer
    /\ \E mode \in {Numeric, Byte} :
          Pushed("push_mode", [arg EXCEPT !.mode = mode], push_mode(build, ret.val, mode))

BufferPushCharacterCount ==
    /\ HoldsBuffer
    /\ \E count \in {3, 300} :
          Pushed("push_character_count", [arg EXCEPT !.mode = Byte, !.raw_data_len = count],
                 push_character_count(build, ret.val, Byte, count))

BufferPushNumericData ==
    /\ HoldsBuffer
    /\ \E data \in {Digits(8), Digits(41)} :
          Pushed("push_numeric_data", [arg EXCEPT !.data = data],
                 push_numeric_data(build, ret.val, data))

BufferPushAlphanumericData ==
    /\ HoldsBuffer
    /\ Pushed("push_alphanumeric_data", [arg EXCEPT !.data = <<65, 66, 67>>],
              push_alphanumeric_data(build, ret.val, <<65, 66, 67>>))

\* b"Some data", and sixteen bytes.
BufferPushByteData ==
    /\ HoldsBuffer
    /\ \E data \in {<<83, 111, 109, 101, 32, 100, 97, 116, 97>>, [i \in 1..16 |-> 97]} :
          Pushed("push_byte_data", [arg EXCEPT !.data = data],
                 push_byte_data(build, ret.val, data))

BufferPushKanjiData ==
    /\ HoldsBuffer
    /\ Pushed("push_kanji_data", [arg EXCEPT !.data = <<147, 95>>],
              push_kanji_data(build, ret.val, <<147, 95>>))

BufferPushEciDesignator ==
    /\ HoldsBuffer
    /\ \E d \in {9, 1000000} :
          Pushed("push_eci_designator", [arg EXCEPT !.number = d],
                 push_eci_designator(build, ret.val, d))

BufferPushTerminator ==
    /\ HoldsBuffer
    /\ Pushed("push_terminator", arg, push_terminator(build, ret.val, arg.ec_level))

NextPush ==
    \/ BitsNew
    \/ BufferPushNumber
    \/ BufferPushMode
    \/ BufferPushCharacterCount
    \/ BufferPushNumericData
    \/ BufferPushAlphanumericData
    \/ BufferPushByteData
    \/ BufferPushKanjiData
    \/ BufferPushEciDesignator
    \/ BufferPushTerminator
    \/ Drop

SpecPush == InitBits /\ [][NextPush]_vars

(***************************************************************************)
(* The specification of the string canvas: Canvas::new, draw_dark_pixel    *)
(* calls one after the other, into_image.  The canvas is arg.canvas before *)
(* a call and ret.val after new and after a draw; arg.size and arg.pixels  *)
(* are the arguments of new, arg.drawn the coordinates drawn so far and    *)
(* arg.pushes their number.                                                *)
(***************************************************************************)
\* The sides of the canvases, and the draws on one canvas.
MaxCanvasSide == 2
MaxDraws == 3

\* <<dark, light>>: "!B!" and "A" (test_render_to_string), "B" and "AAAA",
\* the default pixels of char (U+2588 and a space), and "#" and ".".
PixelPairs ==
    { << <<33, 66, 33>>, <<65>> >>, << <<66>>, <<65, 65, 65, 65>> >>,
      << <<226, 150, 136>>, <<32>> >>, << <<35>>, <<46>> >> }

StringCanvasNew ==
    /\ op = "none"
    /\ \E w \in 0..MaxCanvasSide, h \in 0..MaxCanvasSide, p \in PixelPairs :
          /\ op' = "string::new"
          /\ arg' = [NoArg EXCEPT !.size = <<w, h>>, !.pixels = p]
          /\ ret' = Ok(String_Canvas_new(w, h, p[1], p[2]))
          /\ UNCHANGED <<build, code, stages>>

HoldsStringCanvas == op \in {"string::new", "string::draw_dark_pixel"} /\ ret.ok

\* A draw at a coordinate of the canvas or at the first one past a side.
StringDrawDarkPixel ==
    /\ HoldsStringCanvas
    /\ arg.pushes < MaxDraws
    /\ \E x \in 0..arg.size[1], y \in 0..arg.size[2] :
          /\ op' = "string::draw_dark_pixel"
          /\ arg' = [arg EXCEPT !.canvas = ret.val, !.x = x, !.y = y,
                                !.drawn = @ \cup {<<x, y>>}, !.pushes = @ + 1]
          /\ ret' = String_draw_dark_pixel(ret.val, x, y)
          /\ UNCHANGED <<build, code, stages>>

StringIntoImage ==
    /\ HoldsStringCanvas
    /\ op' = "string::into_image"
    /\ arg' = [arg EXCEPT !.canvas = ret.val]
    /\ ret' = String_into_image(build, ret.val)
    /\ UNCHANGED <<build, code, stages>>

NextString == StringCanvasNew \/ StringDrawDarkPixel \/ StringIntoImage \/ Drop

SpecString == InitBits /\ [][NextString]_vars

(***************************************************************************)
(* The specification of the EPS canvas: Canvas::new, rectangles and pixels *)
(* one after the other, into_image.  The canvas is arg.canvas before a     *)
(* call and ret.val after new and after a draw; arg.size is the size given *)
(* to new; arg.x, arg.y and arg.rect are the left, the top and the         *)
(* <<width, height>> of the last draw.                                     *)
(***************************************************************************)
\* The draws on one EPS canvas.
MaxRects == 2

\* The default colours of the EPS renderer: black on white.
EpsDark == <<0, 0, 0>>
EpsLight == <<1, 1, 1>>

EpsCanvasNew ==
    /\ op = "none"
    /\ \E w \in 0..MaxCanvasSide, h \in 0..MaxCanvasSide :
          /\ op' = "eps::new"
          /\ arg' = [NoArg EXCEPT !.size = <<w, h>>]
          /\ ret' = Ok(Eps_Canvas_new(w, h, EpsDark, EpsLight))
          /\ UNCHANGED <<build, code, stages>>

HoldsEpsCanvas ==
    op \in {"eps::new", "eps::draw_dark_pixel", "eps::draw_dark_rect"} /\ ret.ok

\* The state after the draw `name` of a rectangle returned r.
EpsDrawn(name, left, top, w, h, r) ==
    /\ op' = name
    /\ arg' = [arg EXCEPT !.canvas = ret.val, !.x = left, !.y = top, !.rect = <<w, h>>,
                          !.pushes = @ + 1]
    /\ ret' = r
    /\ UNCHANGED <<build, code, stages>>

\* A pixel of the canvas, or one in the row past the bottom or the row
\* after it.
EpsDrawDarkPixel ==
    /\ HoldsEpsCanvas
    /\ arg.pushes < MaxRects
    /\ \E x \in 0..(arg.size[1] - 1), y \in {0, arg.size[2] - 1, arg.size[2], arg.size[2] + 1} :
          /\ y >= 0
          /\ EpsDrawn("eps::draw_dark_pixel", x, y, 1, 1,
                      Eps_draw_dark_pixel(build, ret.val, x, y))

\* A rectangle within the canvas: one module wide or up to the right side,
\* one module high or down to the bottom.
EpsDrawDarkRect ==
    /\ HoldsEpsCanvas
    /\ arg.pushes < MaxRects
    /\ \E left \in 0..(arg.size[1] - 1), top \in 0..(arg.size[2] - 1) :
          \E w \in {1, arg.size[1] - left}, h \in {1, arg.size[2] - top} :
              EpsDrawn("eps::draw_dark_rect", left, top, w, h,
                       Eps_draw_dark_rect(build, ret.val, left, top, w, h))

EpsIntoImage ==
    /\ HoldsEpsCanvas
    /\ op' = "eps::into_image"
    /\ arg' = [arg EXCEPT !.canvas = ret.val]
    /\ ret' = Ok(Eps_into_image(ret.val))
    /\ UNCHANGED <<build, code, stages>>

NextEps == EpsCanvasNew \/ EpsDrawDarkPixel \/ EpsDrawDarkRect \/ EpsIntoImage \/ Drop

SpecEps == InitBits /\ [][NextEps]_vars

(***************************************************************************)
(* The specification of the Reed-Solomon stage: construct_codewords on     *)
(* data that fills the blocks of a version and level.                      *)
(***************************************************************************)
\* Versions with one block, with blocks of one size and with blocks of two
\* sizes.
EcVersions ==
    {Normal(1), Normal(3), Normal(5), Micro(1), Micro(2), Micro(3), Micro(4),
     RectMicro(7, 43), RectMicro(15, 43), RectMicro(17, 139)}

\* The data is n bytes of a sequence that a seed selects.
MaxSeed == 3
SeededBytes(seed, n) == Force([i \in 1..n |-> (i * i + seed * i + seed) % 256])

\* The number of data bytes of (v, ec_level): Ok(n) or Err(InvalidVersion).
DataBytes(v, ec_level) ==
    LET blk == fetch(v, ec_level, DATA_BYTES_PER_BLOCK, <<0, 0, 0, 0>>)
    IN  IF ~blk.ok THEN blk
        ELSE Ok(blk.val[1] * blk.val[2] + blk.val[3] * blk.val[4])

InitEc ==
    /\ build \in {"debug", "release"}
    /\ op = "none"
    /\ arg = NoArg
    /\ ret = Ok(0)
    /\ code = NoCode
    /\ stages = << >>

ConstructCodewords ==
    /\ op = "none"
    /\ \E v \in EcVersions, ec_level \in EcLevel, seed \in 0..MaxSeed :
          LET n == DataBytes(v, ec_level)
              data == SeededBytes(seed, IF n.ok THEN n.val ELSE seed)
          IN  /\ op' = "construct_codewords"
              /\ arg' = [NoArg EXCEPT !.data = data, !.version = v, !.ec_level = ec_level]
              /\ ret' = construct_codewords(data, v, ec_level)
              /\ UNCHANGED <<build, code, stages>>

\* max_allowed_errors for every version and level a caller can name.
MaxAllowedErrors ==
    /\ op = "none"
    /\ \E v \in VersionArgs, ec_level \in EcLevel :
          /\ op' = "ec::max_allowed_errors"
          /\ arg' = [NoArg EXCEPT !.version = v, !.ec_level = ec_level]
          /\ ret' = max_allowed_errors(v, ec_level)
          /\ UNCHANGED <<build, code, stages>>

NextEc == ConstructCodewords \/ MaxAllowedErrors \/ Drop

SpecEc == InitEc /\ [][NextEc]_vars

(***************************************************************************)
(* C1: for every valid Version, width() and height() are the ISO sizes:    *)
(* Normal(n) has side 4n+17, Micro(n) side 2n+9, and RectMicro(h, w) has   *)
(* width w and height h.                                                   *)
(***************************************************************************)
IsoWidth(v) ==
    CASE v.kind = "Normal" -> 17 + 4 * v.a
      [] v.kind = "Micro" -> 9 + 2 * v.a
      [] v.kind = "RectMicro" -> RectMicroSizes[rect_micro_index(v).val + 1][2]

IsoHeight(v) ==
    CASE v.kind = "Normal" -> 17 + 4 * v.a
      [] v.kind = "Micro" -> 9 + 2 * v.a
      [] v.kind = "RectMicro" -> RectMicroSizes[rect_micro_index(v).val + 1][1]

C1_Dimensions ==
    /\ (op = "width" /\ IsValidVersion(arg.version))
          => ret = Ok(IsoWidth(arg.version))
    /\ (op = "height" /\ IsValidVersion(arg.version))
          => ret = Ok(IsoHeight(arg.version))

C1_Witness ==
    /\ op = "height"
    /\ arg.version = RectMicro(17, 139)
    /\ ret = Ok(17)


(***************************************************************************)
(* C2: every QrCode a constructor returns Ok has a module vector of        *)
(* exactly width() * height() modules, width() being version().width()     *)
(* and height() being version().height().                                  *)
(***************************************************************************)
C2_ModuleCount ==
    (op \in Constructors /\ ret.ok)
        => /\ Len(to_colors(ret.val)) = ret.val.width * ret.val.height
           /\ ret.val.width = width(ret.val.version)
           /\ ret.val.height = height(ret.val.version)

C2_Witness ==
    /\ op = "with_version"
    /\ ret.ok
    /\ ret.val.version = RectMicro(7, 43)
    /\ Len(to_colors(ret.val)) = 301

(***************************************************************************)
(* C3: the module vector is row-major: indexing a code at (x, y) with      *)
(* 0 <= x < width and 0 <= y < height returns the element at position      *)
(* y * width + x of to_colors().                                           *)
(***************************************************************************)
C3_RowMajor ==
    (op = "index" /\ arg.x < code.width /\ arg.y < code.height)
        => ret = Ok(to_colors(code)[arg.y * code.width + arg.x + 1])

\* The last module of the second row of a 7 x 43 symbol.
C3_Witness ==
    /\ op = "index"
    /\ code.version = RectMicro(7, 43)
    /\ arg.x = 42
    /\ arg.y = 1
    /\ ret = Ok(to_colors(code)[86])

(***************************************************************************)
(* C4: automatic Normal selection is first-fit and so minimal:             *)
(* with_error_correction_level returns a code of Normal version v only if  *)
(* the optimal encoding of the data fits the capacity of (v, level) and    *)
(* of no smaller Normal version, and it returns Err(DataTooLong) exactly   *)
(* when no version of 1..40 fits.                                          *)
(***************************************************************************)
\* Whether the bits push_optimal_data writes for Normal(n) fit the capacity
\* of (Normal(n), ec_level).
FitsNormal(b, data, n, ec_level) ==
    LET pushed == push_optimal_data(b, Bits_new(Normal(n)), data)
        cap == fetch(Normal(n), ec_level, DATA_LENGTHS, 0)
    IN  pushed.ok /\ cap.ok /\ Bits_len(pushed.val) <= cap.val

C4_FirstFit ==
    op = "with_error_correction_level"
        => /\ ret.ok
                => /\ ret.val.version.kind = "Normal"
                   /\ ret.val.version.a \in 1..40
                   /\ FitsNormal(build, arg.data, ret.val.version.a, arg.ec_level)
                   /\ \A n \in 1..(ret.val.version.a - 1) :
                          ~FitsNormal(build, arg.data, n, arg.ec_level)
           /\ ret = Err("DataTooLong")
                <=> \A n \in 1..40 : ~FitsNormal(build, arg.data, n, arg.ec_level)

\* 35 digits are 131 bits: three more than Normal(1) holds at level M.
C4_Witness ==
    /\ op = "with_error_correction_level"
    /\ arg.data = Digits(35)
    /\ arg.ec_level = M
    /\ ret.ok
    /\ ret.val.version = Normal(2)

(***************************************************************************)
(* C5: capacity boundary: for a valid (version, level), with_version       *)
(* succeeds when the bit length of the optimal encoding is at most the     *)
(* data capacity (exactly at capacity included) and fails with             *)
(* DataTooLong when it is one bit or more over.                            *)
(***************************************************************************)
\* The capacity of (v, ec_level) in bits.
Capacity(v, ec_level) == fetch(v, ec_level, DATA_LENGTHS, 0)

\* A version and level the tables define.
IsValidCombination(v, ec_level) ==
    /\ IsValidVersion(v)
    /\ Capacity(v, ec_level).ok
    /\ Capacity(v, ec_level).val > 0

\* The bit length of the optimal encoding.
OptimalLen(b, data, v) == Optimize(b, data, v).val.total_len

SupportsMode(v, mode) ==
    \/ v.kind # "Micro"
    \/ mode = Numeric
    \/ mode = Alphanumeric /\ v.a >= 2
    \/ v.a >= 3

\* Whether every segment of the optimal encoding is in a mode of the version.
OptimalModesSupported(b, data, v) ==
    LET segs == Optimize(b, data, v).val.segments
    IN  \A i \in 1..Len(segs) : SupportsMode(v, segs[i].mode)

C5_OneOver ==
    /\ op = "with_version"
    /\ arg.version = Micro(4)
    /\ arg.ec_level = L
    /\ OptimalLen(build, arg.data, arg.version)
           = Capacity(arg.version, arg.ec_level).val + 1
    /\ ret = Err("DataTooLong")

(***************************************************************************)
(* C6: no panics on caller input: for every Version a caller can           *)
(* construct, the out-of-range ones included, every level and every data,  *)
(* with_version returns a QrCode or a typed QrError and never panics.      *)
(***************************************************************************)
C6_NoPanic ==
    op = "with_version" => ret # Panic

\* with_version(b"1", Version::Micro(0), EcLevel::L) in a debug build.
C6_Panics ==
    /\ build = "debug"
    /\ op = "with_version"
    /\ arg.version = Micro(0)
    /\ arg.data = Digits(1)
    /\ arg.ec_level = L
    /\ ret = Panic

(***************************************************************************)
(* C7: optimizer optimality: for any input and version, the total bit      *)
(* length (mode indicators, character counts and data bits) of the         *)
(* segments push_optimal_data produces is minimal, and so at most the bit  *)
(* length of the whole input in any single admissible mode.                *)
(***************************************************************************)
\* The bits of a segment of `count` characters in the k-th mode.
SegmentBits(b, v, k, count) ==
    mode_bits_count(b, v).val + length_bits_count(b, Modes[k], v).val
        + data_bits_count(Modes[k], count)

\* Whether the bytes from+1..to of data can be one segment in the k-th mode.
RangeAdmissible(data, from, to, k) ==
    IF k = 4
    THEN /\ (to - from) % 2 = 0
         /\ \A j \in 1..((to - from) \div 2) :
                IsKanjiPair(data[from + 2 * j - 1], data[from + 2 * j])
    ELSE \A i \in (from + 1)..to : Admissible(data, i, k)

\* The characters of the bytes from+1..to in the k-th mode.
CharCount(from, to, k) == IF k = 4 THEN (to - from) \div 2 ELSE to - from

\* Every way the first n bytes can end: the start of the last segment and
\* its mode.
LastSegments(data, n) ==
    {p \in (0..(n - 1)) \X (1..4) : RangeAdmissible(data, p[1], n, p[2])}

\* table[i + 1] is the least bit length over every segmentation of the
\* first i bytes, for i up to n.
RECURSIVE MinLenTable(_, _, _, _)
MinLenTable(b, data, v, n) ==
    IF n = 0 THEN <<0>>
    ELSE LET table == MinLenTable(b, data, v, n - 1)
             ends == {table[p[1] + 1] + SegmentBits(b, v, p[2], CharCount(p[1], n, p[2])) :
                          p \in LastSegments(data, n)}
         IN  Append(table, CHOOSE least \in ends : \A other \in ends : least <= other)

MinLen(b, data, v) == MinLenTable(b, data, v, Len(data))[Len(data) + 1]

\* The bit length of the segments as they are encoded.
RECURSIVE SegmentsLen(_, _, _, _)
SegmentsLen(b, v, segs, i) ==
    IF i > Len(segs) THEN 0
    ELSE LET k == CHOOSE m \in 1..4 : Modes[m] = segs[i].mode
         IN  SegmentBits(b, v, k, CharCount(segs[i].begin, segs[i].end, k))
                 + SegmentsLen(b, v, segs, i + 1)

\* The segments are a partition of the data into admissible ranges.
IsSegmentation(data, segs) ==
    /\ Len(data) > 0 => Len(segs) > 0 /\ segs[1].begin = 0 /\ segs[Len(segs)].end = Len(data)
    /\ Len(data) = 0 => Len(segs) = 0
    /\ \A i \in 1..Len(segs) :
          /\ segs[i].begin < segs[i].end
          /\ i > 1 => segs[i].begin = segs[i - 1].end
          /\ RangeAdmissible(data, segs[i].begin, segs[i].end,
                             CHOOSE m \in 1..4 : Modes[m] = segs[i].mode)

\* The single modes the whole of data can be encoded in.
SingleModes(data) == {k \in 1..4 : RangeAdmissible(data, 0, Len(data), k)}

C7_Optimal ==
    /\ (op = "optimize" /\ ret.ok)
          => /\ IsSegmentation(arg.data, ret.val.segments)
             /\ SegmentsLen(build, arg.version, ret.val.segments, 1) = ret.val.total_len
             /\ ret.val.total_len = MinLen(build, arg.data, arg.version)
             /\ \A k \in SingleModes(arg.data) :
                    Len(arg.data) > 0 =>
                        ret.val.total_len
                            <= SegmentBits(build, arg.version, k, CharCount(0, Len(arg.data), k))
    /\ (op = "push_optimal_data" /\ ret.ok)
          => Bits_len(ret.val) = MinLen(build, arg.data, arg.version)

\* "A", eight digits and "a": the digits are worth a segment of their own.
C7_Witness ==
    /\ op = "optimize"
    /\ arg.data = <<65>> \o Digits(8) \o <<97>>
    /\ arg.version = Normal(1)
    /\ ret.ok
    /\ Len(ret.val.segments) = 3
    /\ ret.val.total_len = MinLen(build, arg.data, arg.version)
    /\ ret.val.total_len < SegmentBits(build, arg.version, 3, Len(arg.data))

(***************************************************************************)
(* C8: after push_terminator(level) succeeds the bit length is the data    *)
(* capacity of (version, level) exactly: a terminator of zero bits, zero   *)
(* bits up to the next byte boundary, then pad bytes 0xEC, 0x11 in turn    *)
(* (0xEC first) until the capacity is reached; the bits written before    *)
(* the terminator are unchanged.  The terminator has at most 4 bits for    *)
(* Normal, 3 for rMQR and 3 + 2v for Micro(v); "at most four bits" for     *)
(* every version does not hold.                                            *)
(***************************************************************************)
\* The bits from+1..to of a buffer are zero.
ZeroBits(data, from, to) == \A i \in (from + 1)..to : data[i] = 0

\* The j-th pad byte, from 0: 0xEC, 0x11, 0xEC, ...
PadByte(j) == IF j % 2 = 0 THEN 236 ELSE 17

\* The bit i (from 1, the most significant first) of a byte.
BitOf(byte, i) == (byte \div (2 ^ (8 - i))) % 2

\* The whole bytes from bit `from` on are the pad bytes in turn; a last
\* codeword of fewer than eight bits is left open.
PadBytes(data, from) ==
    \A j \in 0..(((Len(data) - from) \div 8) - 1) :
        \A i \in 1..8 : data[from + 8 * j + i] = BitOf(PadByte(j), i)

\* before is a prefix of after, followed by a terminator of at most `most`
\* zero bits, zero bits to a byte boundary, and pad bytes up to cap bits.
Terminated(before, after, cap, most) ==
    /\ Len(after) = cap
    /\ SubSeq(after, 1, Len(before)) = before
    /\ \E t \in 0..most :
          LET ended == Min(Len(before) + t, cap)
              aligned == Min(div_ceil(ended, 8) * 8, cap)
          IN  /\ ZeroBits(after, Len(before), aligned)
              /\ PadBytes(after, aligned)

MostTerminatorBits(v) ==
    CASE v.kind = "Normal" -> 4
      [] v.kind = "RectMicro" -> 3
      [] v.kind = "Micro" -> 3 + 2 * v.a

BlocksOf(v, ec_level) == fetch(v, ec_level, DATA_BYTES_PER_BLOCK, <<0, 0, 0, 0>>).val

BlockCount(v, ec_level) == BlocksOf(v, ec_level)[2] + BlocksOf(v, ec_level)[4]

\* The sizes of the blocks 1..n added up.
RECURSIVE SizesSum(_, _)
SizesSum(blk, n) == IF n = 0 THEN 0 ELSE SizesSum(blk, n - 1) + BlockSize(blk, n)

\* The bytes that come before byte j of block i in column-major block
\* order, the blocks having the given sizes: the bytes 1..j-1 of every
\* block, and byte j of the blocks before block i.
RECURSIVE Before(_, _, _, _)
Before(sizes, n, i, j) ==
    IF n = 0 THEN 0
    ELSE Before(sizes, n - 1, i, j)
             + Min(sizes[n], j - 1)
             + (IF n < i /\ sizes[n] >= j THEN 1 ELSE 0)

C9_Interleaved ==
    (op = "construct_codewords" /\ ret.ok)
        => LET blk == BlocksOf(arg.version, arg.ec_level)
               n == BlockCount(arg.version, arg.ec_level)
               ec == fetch(arg.version, arg.ec_level, EC_BYTES_PER_BLOCK, 0).val
               sizes == Force([i \in 1..n |-> BlockSize(blk, i)])
               block(i) == SubSeq(arg.data, SizesSum(blk, i - 1) + 1, SizesSum(blk, i))
               parity == Force([i \in 1..n |-> create_error_correction_code(block(i), ec)])
               ecs == Force([i \in 1..n |-> ec])
           IN  /\ SizesSum(blk, n) = Len(arg.data)
               /\ Len(ret.val[1]) = Len(arg.data)
               /\ \A i \in 1..n : \A j \in 1..sizes[i] :
                      ret.val[1][Before(sizes, n, i, j) + 1] = block(i)[j]
               /\ Len(ret.val[2]) = ec * n
               /\ \A i \in 1..n : \A j \in 1..ec :
                      ret.val[2][Before(ecs, n, i, j) + 1] = parity[i][j]

\* Normal(5) at level Q: two blocks of 15 bytes and two of 16, so the last
\* two bytes of the output are the 16th bytes of the blocks 3 and 4.
C9_Witness ==
    /\ op = "construct_codewords"
    /\ arg.version = Normal(5)
    /\ arg.ec_level = Q
    /\ ret.ok
    /\ BlocksOf(arg.version, arg.ec_level) = <<15, 2, 16, 2>>
    /\ Len(ret.val[1]) = 62
    /\ ret.val[1][2] = arg.data[16]
    /\ ret.val[1][61] = arg.data[46]
    /\ ret.val[1][62] = arg.data[62]
    /\ Len(ret.val[2]) = 72

(***************************************************************************)
(* C10: functional preservation: in with_bits, after                       *)
(* draw_all_functional_patterns, neither draw_data nor the mask changes a  *)
(* cell for which is_functional holds; data placement writes only          *)
(* non-functional cells and the mask flips only data cells; the only       *)
(* later writes to functional cells are the reserved format and version    *)
(* information bits.                                                       *)
(***************************************************************************)
\* The colour of a module of a canvas.
IsDarkModule(m) == m \in {"DF", "DD"}

C10_FunctionalPreserved ==
    (op \in Constructors /\ ret.ok)
        => LET v == ret.val.version
               w == ret.val.width
               drawn == stages[1]
               placed == stages[2]
               masked == stages[3]
               functional(k) == is_functional(v, w, ModuleX(w, k), ModuleY(w, k))
           IN  \A k \in 1..(w * ret.val.height) :
                  IF functional(k)
                  THEN /\ drawn[k] \in {"LF", "DF", "R"}
                       /\ placed[k] = drawn[k]
                       /\ \/ masked[k] = placed[k]
                          \/ drawn[k] = "R" /\ masked[k] \in {"LF", "DF"}
                  ELSE /\ drawn[k] = "E"
                       /\ placed[k] \in {"LD", "DD"}
                       /\ masked[k] \in {"LD", "DD"}

\* A 7 x 43 symbol whose mask has flipped a data module, and whose modules
\* of the finder pattern and of the format information are in place.
C10_Witness ==
    /\ op = "with_version"
    /\ ret.ok
    /\ ret.val.version = RectMicro(7, 43)
    /\ is_functional(ret.val.version, 43, 0, 0)
    /\ stages[1][1] = "DF" /\ stages[3][1] = "DF"
    /\ is_functional(ret.val.version, 43, 8, 1)
    /\ stages[1][43 + 8 + 1] = "R" /\ stages[3][43 + 8 + 1] \in {"LF", "DF"}
    /\ \E k \in 1..301 :
          /\ ~is_functional(ret.val.version, 43, ModuleX(43, k), ModuleY(43, k))
          /\ IsDarkModule(stages[2][k]) # IsDarkModule(stages[3][k])

(***************************************************************************)
(* C12.  For every valid (version, level), max_allowed_errors is half the  *)
(* parity bytes of a block, rounded down, times the number of blocks.      *)
(***************************************************************************)
\* The parity bytes of a block of (v, ec_level).
EcPerBlock(v, ec_level) == fetch(v, ec_level, EC_BYTES_PER_BLOCK, 0).val

ProtectionCodewords(v, ec_level) ==
    IF <<v, ec_level>> \in {<<Normal(1), L>>, <<Micro(2), L>>} THEN 3
    ELSE IF <<v, ec_level>> \in {<<Micro(1), L>>, <<Micro(3), L>>, <<Micro(4), L>>,
                                 <<Normal(2), L>>, <<Normal(1), M>>, <<Micro(2), M>>}
    THEN 2
    ELSE IF <<v, ec_level>> \in {<<Normal(1), Q>>, <<Normal(1), H>>, <<Normal(3), L>>}
    THEN 1
    ELSE 0

SomeData == <<83, 111, 109, 101, 32, 100, 97, 116, 97>>

\* A call that encodes "Some data" with automatic Normal selection at M.
EncodesSomeDataAtM ==
    /\ arg.data = SomeData
    /\ \/ op = "new"
       \/ op = "with_error_correction_level" /\ arg.ec_level = M

\* C13: the code of "Some data" with automatic Normal selection at level M
\* has version Normal(1), width 21, level M and max_allowed_errors() = 4, and
\* these are what the accessors return for such a code.
C13_SomeData ==
    /\ EncodesSomeDataAtM
          => /\ ret.ok
             /\ QrCode_version(ret.val) = Normal(1)
             /\ QrCode_width(ret.val) = 21
             /\ QrCode_error_correction_level(ret.val) = M
             /\ QrCode_max_allowed_errors(ret.val) = Ok(4)
    /\ (code # NoCode /\ code.version = Normal(1) /\ code.ec_level = M)
          => /\ op = "version" => ret = Ok(Normal(1))
             /\ op = "width" => ret = Ok(21)
             /\ op = "error_correction_level" => ret = Ok(M)
             /\ op = "max_allowed_errors" => ret = Ok(4)

\* QrCode::new(b"Some data") returned and max_allowed_errors() was read.
C13_Witness ==
    /\ op = "max_allowed_errors"
    /\ code.version = Normal(1)
    /\ code.ec_level = M
    /\ code.width = 21
    /\ ret = Ok(4)

(***************************************************************************)
(* C14.  Automatic rMQR selection with the Area strategy returns, among    *)
(* the 32 sizes that hold the data at the level, one with the fewest       *)
(* modules; for "Some data" at level M it is 27 wide and 13 high.          *)
(***************************************************************************)
RectMicroVersions ==
    {RectMicro(RectMicroSizes[i][1], RectMicroSizes[i][2]) : i \in 1..32}

ModuleCount(v) == width(v) * height(v)

\* Whether the bits push_optimal_data writes for v fit the capacity of
\* (v, ec_level).
FitsVersion(b, data, v, ec_level) ==
    LET pushed == push_optimal_data(b, Bits_new(v), data)
        cap == fetch(v, ec_level, DATA_LENGTHS, 0)
    IN  pushed.ok /\ cap.ok /\ Bits_len(pushed.val) <= cap.val

\* The level of an automatic rMQR call.
RectMicroCallLevel == IF op = "new_rect_micro" THEN M ELSE arg.ec_level

\* C14: the code returned by new_rect_micro or
\* rect_micro_with_error_correction_level has an rMQR size that holds the
\* data at the level, and no size that holds it has fewer modules; the call
\* fails only when no size holds the data; "Some data" at level M gives
\* width 27 and height 13.
C14_SmallestArea ==
    op \in {"new_rect_micro", "rect_micro_with_error_correction_level"}
        => /\ ret.ok
                => /\ ret.val.version \in RectMicroVersions
                   /\ FitsVersion(build, arg.data, ret.val.version, RectMicroCallLevel)
                   /\ \A v \in RectMicroVersions :
                          FitsVersion(build, arg.data, v, RectMicroCallLevel)
                              => ModuleCount(ret.val.version) <= ModuleCount(v)
           /\ ~ret.ok
                => \A v \in RectMicroVersions :
                       ~FitsVersion(build, arg.data, v, RectMicroCallLevel)
           /\ (arg.data = SomeData /\ RectMicroCallLevel = M)
                => ret.ok /\ QrCode_width(ret.val) = 27 /\ QrCode_height(ret.val) = 13

\* new_rect_micro(b"Some data") returned the 27 x 13 symbol, which is not
\* the first size that holds the data in table order.
C14_Witness ==
    /\ op = "new_rect_micro"
    /\ arg.data = SomeData
    /\ ret.ok
    /\ ret.val.version = RectMicro(13, 27)
    /\ \E v \in RectMicroVersions :
          /\ FitsVersion(build, SomeData, v, M)
          /\ v.a < 13
          /\ ModuleCount(v) > ModuleCount(RectMicro(13, 27))

(***************************************************************************)
(* C15: the index of an rMQR size.                                         *)
(***************************************************************************)
\* The heights and widths of rMQR symbols.
AdmissibleHeights == {7, 9, 11, 13, 15, 17}

AdmissibleWidths == {27, 43, 59, 77, 99, 139}

\* The admissible (height, width) pairs: width 27 only with height 11 or 13.
AdmissiblePairs ==
    {p \in AdmissibleHeights \X AdmissibleWidths : p[2] = 27 => p[1] \in {11, 13}}

IsAdmissible(v) == v.kind = "RectMicro" /\ <<v.a, v.b>> \in AdmissiblePairs

\* The number of admissible pairs before (h, w) in ascending (height, width)
\* order.
PairRank(h, w) ==
    Cardinality({p \in AdmissiblePairs : p[1] < h \/ (p[1] = h /\ p[2] < w)})

\* C15: rect_micro_index is Ok exactly for the 32 admissible pairs, gives
\* each its rank in ascending (height, width) order (so the indices are
\* distinct and fill 0..31), and is Err(InvalidVersion) for every other
\* Version; is_rect_micro is true exactly for the admissible pairs.
C15_RectMicroIndex ==
    /\ Cardinality(AdmissiblePairs) = 32
    /\ op = "rect_micro_index"
          => IF IsAdmissible(arg.version)
             THEN /\ ret = Ok(PairRank(arg.version.a, arg.version.b))
                  /\ ret.val \in 0..31
                  /\ \A p \in AdmissiblePairs :
                         rect_micro_index(RectMicro(p[1], p[2])) = ret
                             => p = <<arg.version.a, arg.version.b>>
             ELSE ret = Err("InvalidVersion")
    /\ op = "is_rect_micro"
          => /\ ret = Ok(IsAdmissible(arg.version))
             /\ ret.val = rect_micro_index(arg.version).ok

\* rect_micro_index gave the last index to the largest size, and refused
\* the height 7 with the width 27.
C15_Witness ==
    /\ op = "rect_micro_index"
    /\ \/ arg.version = RectMicro(17, 139) /\ ret = Ok(31)
       \/ arg.version = RectMicro(7, 27) /\ ret = Err("InvalidVersion")

(***************************************************************************)
(* C16: the three families of versions.                                    *)
(***************************************************************************)
\* The number of families the version belongs to.
FamilyCount(v) ==
    Cardinality({f \in {"normal", "micro", "rect_micro"} :
                    \/ f = "normal" /\ is_normal(v)
                    \/ f = "micro" /\ is_micro(v)
                    \/ f = "rect_micro" /\ is_rect_micro(v)})

\* C16: at most one of is_normal, is_micro and is_rect_micro is true of a
\* Version; is_normal is true exactly of Normal(1..40), is_micro exactly of
\* Micro(1..4); Normal(0), Normal(41), Micro(0), Micro(5) and
\* RectMicro(0, 0) are in no family.
C16_Families ==
    op \in {"is_normal", "is_micro", "is_rect_micro"}
        => /\ FamilyCount(arg.version) <= 1
           /\ ret.val => FamilyCount(arg.version) = 1
           /\ op = "is_normal"
                => ret = Ok(arg.version.kind = "Normal" /\ arg.version.a \in 1..40)
           /\ op = "is_micro"
                => ret = Ok(arg.version.kind = "Micro" /\ arg.version.a \in 1..4)
           /\ arg.version \in {Normal(0), Normal(41), Micro(0), Micro(5), RectMicro(0, 0)}
                => ret = Ok(FALSE)

\* is_normal refused the version 0.
C16_Witness ==
    /\ op = "is_normal"
    /\ arg.version = Normal(0)
    /\ ret = Ok(FALSE)

(***************************************************************************)
(* C17: the order of the modes.                                            *)
(***************************************************************************)
\* a <= b in the order of partial_cmp.
ModeLe(a, b) == partial_cmp(a, b) \in {"Less", "Equal"}

\* The ordering seen from the other side.
Reverse(o) ==
    CASE o = "Less" -> "Greater"
      [] o = "Greater" -> "Less"
      [] OTHER -> o

\* C17: partial_cmp is a partial order on the four modes: a mode equals
\* itself, two modes each below the other are one mode, the order is
\* transitive, partial_cmp(a, b) is the reverse of partial_cmp(b, a); and
\* Numeric < Alphanumeric < Byte, Kanji < Byte, Numeric and Kanji are
\* incomparable.
C17_PartialOrder ==
    op = "partial_cmp"
        => /\ ret.ok
           /\ arg.mode = arg.other => ret.val = "Equal"
           /\ ret.val = "Equal" => arg.mode = arg.other
           /\ (ret.val \in {"Less", "Equal"} /\ ModeLe(arg.other, arg.mode))
                => arg.mode = arg.other
           /\ \A c \in Mode :
                  (ret.val \in {"Less", "Equal"} /\ ModeLe(arg.other, c))
                      => ModeLe(arg.mode, c)
           /\ partial_cmp(arg.other, arg.mode) = Reverse(ret.val)
           /\ <<arg.mode, arg.other>> \in {<<Numeric, Alphanumeric>>, <<Alphanumeric, Byte>>,
                                          <<Numeric, Byte>>, <<Kanji, Byte>>}
                => ret.val = "Less"
           /\ <<arg.mode, arg.other>> \in {<<Numeric, Kanji>>, <<Kanji, Numeric>>}
                => ret.val = "None"

\* partial_cmp found Kanji below Byte, and Numeric and Kanji incomparable.
C17_Witness ==
    /\ op = "partial_cmp"
    /\ \/ arg.mode = Kanji /\ arg.other = Byte /\ ret = Ok("Less")
       \/ arg.mode = Numeric /\ arg.other = Kanji /\ ret = Ok("None")

(***************************************************************************)
(* C18: the join of two modes.                                             *)
(***************************************************************************)
\* C18: max(a, b) is above a and above b, below every mode that is above
\* both, the same as max(b, a), a itself when b = a, and Byte when a and b
\* are incomparable.
C18_Join ==
    op = "max"
        => /\ ret.ok
           /\ ret.val \in Mode
           /\ ModeLe(arg.mode, ret.val)
           /\ ModeLe(arg.other, ret.val)
           /\ \A c \in Mode :
                  (ModeLe(arg.mode, c) /\ ModeLe(arg.other, c)) => ModeLe(ret.val, c)
           /\ max(arg.other, arg.mode) = ret.val
           /\ arg.mode = arg.other => ret.val = arg.mode
           /\ partial_cmp(arg.mode, arg.other) = "None" => ret.val = Byte

\* max joined the incomparable Numeric and Kanji into Byte.
C18_Witness ==
    /\ op = "max"
    /\ arg.mode = Numeric
    /\ arg.other = Kanji
    /\ ret = Ok(Byte)

(***************************************************************************)
(* C19: the bits of the data of a segment.                                 *)
(***************************************************************************)
\* Data of n characters of the mode: digits, letters, bytes, or the
\* Shift-JIS double byte 0x935F n times.
SampleData(m, n) ==
    CASE m = Numeric -> Digits(n)
      [] m = Alphanumeric -> [i \in 1..n |-> 65 + (i % 26)]
      [] m = Byte -> [i \in 1..n |-> 97 + i]
      [] m = Kanji -> [i \in 1..(2 * n) |-> IF i % 2 = 1 THEN 147 ELSE 95]

\* The push operation of the mode.
PushData(b, bits, m, data) ==
    CASE m = Numeric -> push_numeric_data(b, bits, data)
      [] m = Alphanumeric -> push_alphanumeric_data(b, bits, data)
      [] m = Byte -> push_byte_data(b, bits, data)
      [] m = Kanji -> push_kanji_data(b, bits, data)

\* The bits the push operation of the mode appends after the header, in a
\* Normal(1) symbol.
EmittedDataBits(b, m, n) ==
    LET bits == Bits_new(Normal(1))
        pushed == PushData(b, bits, m, SampleData(m, n))
        header == push_header(b, bits, m, n)
    IN  IF pushed.ok /\ header.ok
        THEN Bits_len(pushed.val) - Bits_len(header.val)
        ELSE -1

\* The count the claim states, by whole groups and a remainder.
StatedDataBits(m, n) ==
    CASE m = Numeric -> 10 * (n \div 3) + <<0, 4, 7>>[(n % 3) + 1]
      [] m = Alphanumeric -> 11 * (n \div 2) + <<0, 6>>[(n % 2) + 1]
      [] m = Byte -> 8 * n
      [] m = Kanji -> 13 * n

\* C19: data_bits_count(n) is the number of bits the push operation of the
\* mode appends for n characters: 10 a triple of digits and 4 or 7 for one
\* or two left over, 11 a pair of alphanumerics and 6 for one left over,
\* 8 a byte, 13 a Kanji (two bytes).
C19_DataBitsCount ==
    op = "data_bits_count"
        => /\ ret = Ok(StatedDataBits(arg.mode, arg.raw_data_len))
           /\ ret.val = EmittedDataBits(build, arg.mode, arg.raw_data_len)
           /\ arg.mode = Numeric => 3 * ret.val >= 10 * arg.raw_data_len
                                    /\ 3 * ret.val < 10 * arg.raw_data_len + 3
           /\ arg.mode = Alphanumeric => 2 * ret.val >= 11 * arg.raw_data_len
                                         /\ 2 * ret.val < 11 * arg.raw_data_len + 2

\* data_bits_count gave 24 bits for seven digits: two triples and a digit.
C19_Witness ==
    /\ op = "data_bits_count"
    /\ arg.mode = Numeric
    /\ arg.raw_data_len = 7
    /\ ret = Ok(24)
    /\ EmittedDataBits(build, Numeric, 7) = 24

(***************************************************************************)
(* C20: the width of the mode indicator.                                   *)
(***************************************************************************)
\* C20: mode_bits_count is 4 for a Normal version, v - 1 for Micro(v) with
\* v in 1..4, and 3 for a RectMicro version.
C20_ModeBitsCount ==
    op = "mode_bits_count"
        => /\ arg.version.kind = "Normal" => ret = Ok(4)
           /\ (arg.version.kind = "Micro" /\ arg.version.a \in 1..4)
                => ret = Ok(arg.version.a - 1)
           /\ arg.version.kind = "RectMicro" => ret = Ok(3)

\* mode_bits_count gave three bits for Micro(4).
C20_Witness ==
    /\ op = "mode_bits_count"
    /\ arg.version = Micro(4)
    /\ ret = Ok(3)

(***************************************************************************)
(* C21: the width of the character count.                                  *)
(***************************************************************************)
\* The widths of the three bands of Normal versions, in the order Numeric,
\* Alphanumeric, Byte, Kanji.
BandWidths == << <<10, 9, 8, 8>>, <<12, 11, 16, 10>>, <<14, 13, 16, 12>> >>

Band(n) == IF n <= 9 THEN 1 ELSE IF n <= 26 THEN 2 ELSE 3

\* The widths of Micro(n).
MicroWidths(n) == <<n + 2, n + 1, n + 1, n>>

StatedRow(v) ==
    CASE v.kind = "Normal" -> v.a - 1
      [] v.kind = "Micro" -> 39 + v.a
      [] v.kind = "RectMicro" -> 44 + PairRank(v.a, v.b)

\* The version of the call is valid and the table has its row.
FetchSelects ==
    /\ op = "fetch"
    /\ IsValidVersion(arg.version)
    /\ StatedRow(arg.version) < Len(TableOf(arg.table))

\* The entry of the table the call selects.
SelectedEntry == TableOf(arg.table)[StatedRow(arg.version) + 1][arg.ec_level + 1]

\* C22, as stated: fetch returns Err(InvalidVersion) if the entry selected
\* by (version, level) equals the default value, whatever the kind of the
\* version, and Ok(entry) otherwise.
C22_DefaultIsInvalid_AsStated ==
    FetchSelects
        => ret = IF SelectedEntry = 0 THEN Err("InvalidVersion") ELSE Ok(SelectedEntry)

\* What the code does: the entry of a Normal version is returned Ok even
\* when it equals the default; a default entry is an error for Micro and
\* rMQR versions only.
C22_DefaultIsInvalidButForNormal ==
    FetchSelects
        => ret = IF SelectedEntry = 0 /\ arg.version.kind # "Normal"
                 THEN Err("InvalidVersion")
                 ELSE Ok(SelectedEntry)

\* fetch returned Ok(0), the default value, for Normal(1) in a table of
\* zeros.
C22_OkDefault ==
    /\ op = "fetch"
    /\ arg.version = Normal(1)
    /\ arg.table = "Zeros"
    /\ ret = Ok(0)

\* C30: in a table of 76 rows fetch reads row v - 1 for Normal(v), row
\* 39 + v for Micro(v) and row 44 + rect_micro_index for an rMQR size; the
\* rows are within 0..75 and two valid versions never read the same row; a
\* version that is not valid gets Err(InvalidVersion) whatever the table,
\* even an empty one, where any read would panic.
C30_Rows ==
    op = "fetch"
        => /\ (IsValidVersion(arg.version) /\ arg.table = "RowTags")
                => /\ StatedRow(arg.version) \in 0..75
                   /\ ret = Ok(4 * StatedRow(arg.version) + arg.ec_level + 1)
                   /\ \A w \in VersionArgs :
                          (IsValidVersion(w) /\ w # arg.version)
                              => \A l \in EcLevel : fetch(w, l, RowTags, 0) # ret
           /\ ~IsValidVersion(arg.version) => ret = Err("InvalidVersion")

\* fetch read row 43, the last of the Micro rows, for Micro(4), and
\* returned an error for Micro(5) without reading the empty table.
C30_Witness ==
    /\ op = "fetch"
    /\ \/ arg.version = Micro(4) /\ arg.table = "RowTags" /\ arg.ec_level = L
          /\ ret = Ok(4 * 43 + 1)
       \/ arg.version = Micro(5) /\ arg.table = "Empty" /\ ret = Err("InvalidVersion")

(***************************************************************************)
(* C23: the capacity and the pushes.                                       *)
(***************************************************************************)
\* The data-bit capacity of the version of the buffer at the level the
\* caller builds the symbol for.
BufferCapacity == fetch(arg.version, arg.ec_level, DATA_LENGTHS, 0)

C23_OverEveryLevel ==
    /\ op = "push_byte_data"
    /\ arg.version = Normal(1)
    /\ ret.ok
    /\ \A l \in EcLevel : Bits_len(ret.val) > fetch(Normal(1), l, DATA_LENGTHS, 0).val

(***************************************************************************)
(* C24: the renderer of a code.                                            *)
(***************************************************************************)
\* C24: render gives the renderer the modules, the width and the height of
\* the code, and a quiet zone of 4 modules for a Normal version and of 2
\* for a Micro or an rMQR version.
C24_Render ==
    op = "render"
        => /\ ret.ok
           /\ ret.val.content = to_colors(code)
           /\ ret.val.width = QrCode_width(code)
           /\ ret.val.height = QrCode_height(code)
           /\ code.version.kind = "Normal" => ret.val.quiet_zone = 4
           /\ code.version.kind \in {"Micro", "RectMicro"} => ret.val.quiet_zone = 2

\* render gave a quiet zone of two modules to an rMQR code.
C24_Witness ==
    /\ op = "render"
    /\ code.version.kind = "RectMicro"
    /\ ret.ok
    /\ ret.val.quiet_zone = 2
    /\ ret.val.width = width(code.version)

\* render gave a quiet zone of two modules to a Micro code.
C24_MicroRendered ==
    /\ op = "render"
    /\ code.version.kind = "Micro"
    /\ ret.val.quiet_zone = 2

(***************************************************************************)
(* C28: indexing out of range.                                             *)
(***************************************************************************)
\* C28, as stated: indexing a code at (x, y) with x >= width or y >= height
\* panics.
C28_OutOfRangePanics_AsStated ==
    (op = "index" /\ (arg.x >= code.width \/ arg.y >= code.height))
        => ret = Panic

\* What the code does: the index y * width + x is compared with the length
\* of the vector only, so x >= width in a row that is not the last reads a
\* module of a later row; y >= height, and x >= width in the last row,
\* panic.
C28_PanicsPastTheVector ==
    (op = "index" /\ (arg.x >= code.width \/ arg.y >= code.height))
        => IF arg.y * code.width + arg.x >= code.width * code.height
           THEN ret = Panic
           ELSE ret = Ok(to_colors(code)[arg.y * code.width + arg.x + 1])

\* Indexing at (width, 0) returned the module at (0, 1).
C28_ReadsNextRow ==
    /\ op = "index"
    /\ arg.x = code.width
    /\ arg.y = 0
    /\ ret = Index(code, 0, 1)
    /\ ret.ok

(***************************************************************************)
(* C29: max_allowed_errors of a code.                                      *)
(***************************************************************************)
\* C29: max_allowed_errors() of a code a constructor returned does not
\* panic: the lookup for the version and level of the code succeeds.
C29_NoPanic ==
    /\ (op \in Constructors /\ ret.ok)
          => /\ QrCode_max_allowed_errors(ret.val).ok
             /\ IsValidCombination(ret.val.version, ret.val.ec_level)
    /\ op = "max_allowed_errors" => ret.ok /\ ret.val >= 0

\* max_allowed_errors() returned for an rMQR code, which has two levels
\* only.
C29_Witness ==
    /\ op = "max_allowed_errors"
    /\ code.version.kind = "RectMicro"
    /\ code.ec_level = H
    /\ ret.ok

(***************************************************************************)
(* C25 and C26: the string canvas.                                         *)
(***************************************************************************)
\* The canvas has a pixel at least, and every draw so far was at a
\* coordinate of the canvas.
DrawsInRange ==
    /\ arg.size[1] >= 1
    /\ arg.size[2] >= 1
    /\ \A c \in arg.drawn : c[1] < arg.size[1] /\ c[2] < arg.size[2]

\* The pixel string at (x, y) (from 0): dark where a draw was made.
PixelAt(x, y) == IF <<x, y>> \in arg.drawn THEN arg.pixels[1] ELSE arg.pixels[2]

\* The pixel strings of the row y from the column x on.
RECURSIVE RowFrom(_, _)
RowFrom(x, y) == IF x >= arg.size[1] THEN << >> ELSE PixelAt(x, y) \o RowFrom(x + 1, y)

\* The rows from y on, a '\n' between two rows and none after the last.
RECURSIVE RowsFrom(_)
RowsFrom(y) ==
    IF y = arg.size[2] - 1 THEN RowFrom(0, y)
    ELSE RowFrom(0, y) \o <<10>> \o RowsFrom(y + 1)

\* C25: the image of a canvas of width x height pixels is its height rows
\* with one '\n' between two rows and none at the end; a row is its width
\* pixel strings one after the other, the dark one where draw_dark_pixel
\* was called and the light one elsewhere.
C25_Rows ==
    (op = "string::into_image" /\ DrawsInRange /\ ret.ok)
        => /\ ret.val = RowsFrom(0)
           /\ Cardinality({i \in 1..Len(ret.val) : ret.val[i] = 10}) = arg.size[2] - 1
           /\ ret.val[Len(ret.val)] # 10

\* The image of the 2 x 2 canvas of "!B!" and "A" with (1, 0) and (0, 1)
\* drawn: "A!B!\n!B!A".
C25_Witness ==
    /\ op = "string::into_image"
    /\ arg.size = <<2, 2>>
    /\ arg.drawn = {<<1, 0>>, <<0, 1>>}
    /\ ret = Ok(<<65, 33, 66, 33, 10, 33, 66, 33, 65>>)

\* C26, as stated: after new with width, height >= 1 and draws at
\* coordinates of the canvas, repeated or not, the capacity is not negative
\* and is the number of bytes of the image.
C26_CapacityIsLength_AsStated ==
    (HoldsStringCanvas /\ DrawsInRange)
        => /\ ret.val.capacity >= 0
           /\ ret.val.capacity = Len(RowsFrom(0))

\* What the code does: the capacity counts the calls, not the pixels drawn.
C26_CapacityCountsCalls ==
    (HoldsStringCanvas /\ DrawsInRange)
        => ret.val.capacity
             = str_len(arg.pixels[2]) * arg.size[1] * arg.size[2] + (arg.size[2] - 1)
               + arg.pushes * (str_len(arg.pixels[1]) - str_len(arg.pixels[2]))

\* Two draws at (0, 0) on the 1 x 1 canvas of "B" and "AAAA" left the
\* capacity at -2, and into_image panicked.
C26_NegativeCapacity ==
    /\ op = "string::into_image"
    /\ arg.size = <<1, 1>>
    /\ arg.drawn = {<<0, 0>>}
    /\ arg.pushes = 2
    /\ arg.canvas.capacity = 0 - 2
    /\ ret = Panic

(***************************************************************************)
(* C27: the rectangles of the EPS canvas.                                  *)
(***************************************************************************)
\* The last draw was of a rectangle within the canvas, top measured down
\* from the top edge.
EpsDrawInRange ==
    /\ op \in {"eps::draw_dark_pixel", "eps::draw_dark_rect"}
    /\ arg.x + arg.rect[1] <= arg.size[1]
    /\ arg.y + arg.rect[2] <= arg.size[2]

\* The line the last draw appended: <<x, y, w, h, "rectfill">>, which fills
\* the rectangle from (x, y) to (x + w, y + h), y upwards from the bottom.
LastLine == ret.val.eps[Len(ret.val.eps)]

\* The bounding box the canvas declares.
BoundingBox == ret.val.eps[2]

\* C27, as stated: the rectangle emitted for a draw within the canvas lies
\* inside the bounding box 0 0 W H and covers the vertical range
\* [H - top - height, H - top].
C27_RectInBox_AsStated ==
    (EpsDrawInRange /\ ret.ok)
        => /\ BoundingBox = <<"%%BoundingBox:", 0, 0, arg.size[1], arg.size[2]>>
           /\ LastLine[5] = "rectfill"
           /\ LastLine[1] >= 0
           /\ LastLine[1] + LastLine[3] <= arg.size[1]
           /\ LastLine[2] >= 0
           /\ LastLine[2] + LastLine[4] <= arg.size[2]
           /\ LastLine[2] = arg.size[2] - arg.y - arg.rect[2]
           /\ LastLine[2] + LastLine[4] = arg.size[2] - arg.y

\* What the code does: the rectangle starts at H - top and goes up from
\* there, so it covers [H - top, H - top + height], one height above the
\* range of the module.
C27_RectAboveRange ==
    (EpsDrawInRange /\ ret.ok)
        => /\ BoundingBox = <<"%%BoundingBox:", 0, 0, arg.size[1], arg.size[2]>>
           /\ LastLine = <<arg.x, arg.size[2] - arg.y, arg.rect[1], arg.rect[2], "rectfill">>
           /\ LastLine[1] + LastLine[3] <= arg.size[1]

\* draw_dark_pixel(0, 0) on a 2 x 2 canvas emitted "0 2 1 1 rectfill",
\* which covers the vertical range [2, 3], above the bounding box.
C27_OutsideBox ==
    /\ op = "eps::draw_dark_pixel"
    /\ arg.size = <<2, 2>>
    /\ arg.x = 0
    /\ arg.y = 0
    /\ ret.ok
    /\ LastLine = <<0, 2, 1, 1, "rectfill">>
====
